---- MODULE Spec2Model ----
(***************************************************************************)
(* A model of the client of the art-rift application: the role resolver    *)
(* (useUserRole), the access gates (AuthenticatedLayout, DevConsole) and   *)
(* the mutation handlers (toggleFavorite, handleSubmitComment).            *)
(*                                                                         *)
(* React is modelled as follows.  A component is its state (the useState   *)
(* cells), the snapshot its last render returned, and the requests it has  *)
(* in flight.  A render happens when the state differs from the rendered   *)
(* snapshot, and the effects whose dependencies changed run after it, in   *)
(* the order they are declared, reading the values of that render.  The    *)
(* state updates that the continuation of an await makes are applied in    *)
(* one render under a React 18 root (automatic batching) and one render    *)
(* each under a legacy root; which root the application is built with is   *)
(* not part of these sources, so autoBatching is chosen in Init.  State    *)
(* updates made inside effects are applied together under both.  A state   *)
(* update of an unmounted component is dropped by React; a request issued  *)
(* by a component that has since unmounted stays in flight.                *)
(***************************************************************************)
EXTENDS Integers, FiniteSets, Sequences, TLC

None == "none"

\* The identities of the model.
Ids == {"u1", "u2"}

\* type UserRole / enum app_role
Roles == {"user", "developer", "moderator", "admin"}

\* The role sets a principal of the model may hold.
RoleSets == {{}, {"user"}, {"admin"}, {"developer", "moderator"}}

\* The rows of user_roles that give each identity i the roles f[i].
RowsOf(f) == {[user_id |-> i, role |-> r] : i \in Ids, r \in Roles} \cap
             {row \in [user_id : Ids, role : Roles] : row.role \in f[row.user_id]}

RoleTables == {RowsOf(f) : f \in [Ids -> RoleSets]}

VARIABLES
    autoBatching,   \* the root batches the state updates made after an await
    user_roles,     \* the table public.user_roles: rows [user_id, role]
    upMounted,      \* UserProfile is mounted
    upId,           \* UserProfile: the route parameter id, passed to useUserRole
    upHook,         \* UserProfile's useUserRole state: roles, loading, initialized
    upRendered,     \* what UserProfile's last render saw: userId and the hook's return
    upReqs,         \* role lookups in flight: [id, n, live]
    upIssued,       \* number of role lookups this mount has issued
    upLatest,       \* outcome of the lookup issued last: "none", "pending", "ok", "error"
    upApplied,      \* the lookup whose response was applied last: [id, n, res]
    upOkRoles,      \* per identity, the roles held after each of its lookups that
                    \* returned rows to this instance, in order
    session,        \* the auth subsystem's current session: its user id, or None
    anonymous,      \* the session has been None from the start
    route,          \* the location the router shows
    alMounted,      \* AuthenticatedLayout is mounted (and subscribed to auth changes)
    alUser,         \* AuthenticatedLayout: user
    alLoading,      \* AuthenticatedLayout: loading
    alSessionReqs,  \* getSession calls in flight: [mount]
    alMounts,       \* number of times a protected route was opened
    authEvents,     \* number of auth-state-change notifications so far
    navAuth,        \* number of navigate("/auth") calls so far
    scUserId,       \* useDevConsoleShortcut: currentUserId
    scHook,         \* useDevConsoleShortcut's useUserRole state
    scListeners,    \* the keydown listeners the hook has registered on window: how
                    \* many there are for each hasAccess a listener closes over
    scRendered,     \* what the hook's last render saw: currentUserId and hasAccess;
                    \* the keydown listener registered is the one of that render
    scUserReqs,     \* getUser calls of the mounted useDevConsoleShortcut in flight
    scRoleReqs,     \* role lookups of the mounted useDevConsoleShortcut in flight: [id]
    scNavs,         \* number of navigate("/dev-console") calls so far
    dcMounted,      \* DevConsole is mounted
    dcUserId,       \* DevConsole: currentUserId
    dcUserLoading,  \* DevConsole: userLoading
    dcHook,         \* DevConsole's useUserRole state
    dcStats,        \* DevConsole: stats, "zero" or "loaded"
    dcRendered,     \* what DevConsole's last render saw
    dcUserReqs,     \* getUser calls of DevConsole in flight: [mount]
    dcRoleReqs,     \* role lookups of DevConsole in flight: [id, mount]
    dcStatsReqs,    \* fetchStats calls in flight: [mount]
    dcRolesFor,     \* the lookup whose response gave dcHook its roles: [id, res]
    dcToasts,       \* "Access Denied" toasts of the latest DevConsole mount
    dcNavs,         \* navigate("/") calls of the latest DevConsole mount
    favorites,      \* the table favorites, for the artwork shown: the user ids of its rows
    adFailed,       \* a request of ArtworkDetail has been answered with a failure
    adCurrentUserId,  \* ArtworkDetail: currentUserId
    adIsFavorited,  \* ArtworkDetail: isFavorited
    adFavoriteCount,  \* ArtworkDetail: favoriteCount
    adUserReq,      \* ArtworkDetail's getUser call is in flight
    adArtworkReq,   \* ArtworkDetail's fetchArtwork call is in flight
    adCheckReqs,    \* checkIfFavorited calls in flight: [user]
    adToggleReqs,   \* toggleFavorite calls at their await:
                    \* [n, user, isFavorited, favoriteCount, result]
    adToggles,      \* number of clicks on the favorite button
    adToasts,       \* toasts of ArtworkDetail so far, by text
    comments,       \* the table comments, for the artwork shown, newest first:
                    \* rows [user_id, content]
    csCurrentUserId,  \* CommentSection: currentUserId
    csComments,     \* CommentSection: comments
    csNewComment,   \* CommentSection: newComment
    csIsSubmitting, \* CommentSection: isSubmitting
    csUserReq,      \* CommentSection's getUser call is in flight
    csFetchReqs,    \* number of fetchComments calls in flight
    csInsertReqs,   \* handleSubmitComment calls at their await: [n, user, content, result]
    csSubmits,      \* number of calls of handleSubmitComment
    csToasts,       \* toasts of CommentSection so far, by title
    view_count,     \* the column artworks.view_count, by artwork id
    vwInitial,      \* view_count before any view
    vwId,           \* per browser, the id its ArtworkDetail shows, or None
    vwCalls,        \* increment_view_count calls in flight, by artwork id
    vwViews,        \* number of views so far, by artwork id
    ulTags,         \* Upload: tags, the text of the input, a sequence of characters
    ulFile,         \* Upload: a file is selected
    ulPhase,        \* where handleSubmit is: "form" (not running), "getUser",
                    \* "upload", "insert", "upsert", "link" (at that await), or
                    \* "done" (it has navigated away)
    ulTodo,         \* the tag names the loop has yet to finish, the current one first
    ulUpserts,      \* the upserts on tags this submission issued: [name, res]
    ulLinks,        \* the inserts on artwork_tags this submission issued: [name, res]
    ulSubmits,      \* number of submissions of the form
    ulToasts,       \* toasts of Upload so far, by title
    ulNavs,         \* number of navigate("/") calls of Upload
    ulLoading,      \* Upload: loading
    ulSteps,        \* the calls this submission made before the tags, in order:
                    \* [call, res], call "getUser", "upload" or "insert"
    follows,        \* the table follows, for the artist shown: the follower ids of its rows
    tfPage,         \* the page with the follow button: "ArtworkDetail" or "UserProfile"
    tfCurrentUserId,  \* that page: currentUserId
    tfArtwork,      \* ArtworkDetail: artwork is loaded
    tfIsFollowing,  \* that page: isFollowing
    tfUserReq,      \* its getUser call is in flight
    tfArtworkReq,   \* ArtworkDetail's fetchArtwork call is in flight
    tfCheckReqs,    \* checkIfFollowing calls in flight: [user]
    tfToggleReqs,   \* toggleFollow calls at their await: [n, user, isFollowing, result]
    tfToggles,      \* number of clicks on the follow button
    tfToasts,       \* toasts of toggleFollow so far, by text
    artworks,       \* the table artworks, newest first: rows [id, user_id, mature_content]
    profiles,       \* the table profiles: rows [id, username, show_mature_content]
    hmPage,         \* the page with the artwork list: "Home" or "Browse"
    hmArtworks,     \* that page: artworks, the list it displays
    hmLoading,      \* that page: loading
    hmShowMatureContent,  \* Home: showMatureContent
    hmPrefReq,      \* where fetchUserPreference is: "getUser", "profile" (at that
                    \* await) or "done"
    hmFeedReqs,     \* calls of fetchFeedArtworks / fetchArtworks in flight:
                    \* [n, filter, lim, phase, data, results, pending]
    hmIssued,       \* number of those calls so far
    hmFailed        \* one of the artwork queries has been answered with an error

resolverVars ==
    <<upMounted, upId, upHook, upRendered, upReqs, upIssued, upLatest, upApplied, upOkRoles>>

layoutVars == <<alMounted, alUser, alLoading, alSessionReqs, alMounts, authEvents, navAuth>>

consoleVars == <<dcMounted, dcUserId, dcUserLoading, dcHook, dcStats, dcRendered,
                 dcUserReqs, dcRoleReqs, dcStatsReqs, dcRolesFor, dcToasts,
                 dcNavs>>

scState == <<scUserId, scHook, scRendered, scListeners, scUserReqs, scRoleReqs>>

shortcutVars == <<scState, scNavs>>

gateVars == <<session, anonymous, route, layoutVars, shortcutVars, consoleVars>>

favoriteVars == <<favorites, adFailed, adCurrentUserId, adIsFavorited, adFavoriteCount, adUserReq,
                  adArtworkReq, adCheckReqs, adToggleReqs, adToggles, adToasts>>

commentVars == <<comments, csCurrentUserId, csComments, csNewComment, csIsSubmitting,
                 csUserReq, csFetchReqs, csInsertReqs, csSubmits, csToasts>>

viewVars == <<view_count, vwInitial, vwId, vwCalls, vwViews>>

uploadVars ==
    <<ulTags, ulFile, ulPhase, ulTodo, ulUpserts, ulLinks, ulSubmits, ulToasts, ulNavs,
      ulLoading, ulSteps>>

followVars == <<follows, tfPage, tfCurrentUserId, tfArtwork, tfIsFollowing, tfUserReq,
                tfArtworkReq, tfCheckReqs, tfToggleReqs, tfToggles, tfToasts>>

feedVars == <<artworks, profiles, hmPage, hmArtworks, hmLoading, hmShowMatureContent,
              hmPrefReq, hmFeedReqs, hmIssued, hmFailed>>

moreVars == <<viewVars, uploadVars, followVars, feedVars>>

pageVars == <<favoriteVars, commentVars, moreVars>>

\* everything but the variables of the pages that follow
appVars ==
    <<autoBatching, user_roles, resolverVars, gateVars, favoriteVars, commentVars, feedVars>>

\* everything but the variables of Home and Browse
besideFeed ==
    <<autoBatching, user_roles, resolverVars, gateVars, favoriteVars, commentVars,
      viewVars, uploadVars, followVars>>

vars == <<autoBatching, user_roles, resolverVars, gateVars, pageVars>>

\* Most role lookups one mount of a component issues.
MaxFetches == 3

\* Most times a protected route is opened.
MaxMounts == 2

\* Most auth-state-change notifications.
MaxAuthEvents == 2

\* Most Ctrl/Cmd+Alt+D key presses that navigate.
MaxKeys == 2

\* Most views of artworks, over all browsers.
MaxViews == 3

\* Most characters of the tags input of Upload.
MaxTagChars == 4

\* Most submissions of the Upload form.
MaxUploads == 2

\* Most clicks on the favorite button.
MaxToggles == 2

\* Most calls of handleSubmitComment.
MaxSubmits == 2

\* Most white space around the text of a comment, before and after it together.
MaxPad == 1

------------------------------------------------------------------------------
(* useUserRole *)

\* const [roles, setRoles] = useState([]); loading = true; initialized = false
useStateInit == [roles |-> {}, loading |-> TRUE, initialized |-> FALSE]

\* A select without the eq filter: the variant of selectRole that returns the
\* role of every row of user_roles.
selectRoleWithoutFilter(userId) == {[role |-> row.role] : row \in user_roles}

\* supabase.from("user_roles").select("role").eq("user_id", userId)
selectRole(userId) == {[role |-> row.role] : row \in {x \in user_roles : x.user_id = userId}}

\* (data || []).map((r) => r.role as UserRole)
fetchedRoles(data) == {r.role : r \in data}

\* the effect's branch for an absent userId
effectNoUser(h) == [h EXCEPT !.loading = FALSE, !.roles = {}, !.initialized = TRUE]

\* the effect's branch for a present userId, up to the call of fetchRoles
effectUser(h) == [h EXCEPT !.loading = TRUE, !.initialized = FALSE]

\* the effect of useUserRole, run when userId changed
roleEffect(h, userId) == IF userId = None THEN effectNoUser(h) ELSE effectUser(h)

setRoles(h, roles) == [h EXCEPT !.roles = roles]

setLoading(h, b) == [h EXCEPT !.loading = b]

setInitialized(h, b) == [h EXCEPT !.initialized = b]

\* A fetch that adds the fetched roles to the ones held: the variant of
\* fetchRolesOk that accumulates instead of replacing.
fetchRolesOkAccumulates(h, data) ==
    setInitialized(setLoading(setRoles(h, h.roles \cup fetchedRoles(data)), FALSE), TRUE)

\* fetchRoles after the await, without error: try, then finally
fetchRolesOk(h, data) ==
    setInitialized(setLoading(setRoles(h, fetchedRoles(data)), FALSE), TRUE)

\* A catch block that leaves the roles as they were: the variant of
\* fetchRolesError that does not fail closed.
fetchRolesErrorKeepsRoles(h) == setInitialized(setLoading(h, FALSE), TRUE)

\* fetchRoles after the await, with an error, without the finally block
fetchRolesErrorWithoutFinally(h) == setRoles(h, {})

\* fetchRoles after the await, with an error: catch, then finally
fetchRolesError(h) == setInitialized(setLoading(setRoles(h, {}), FALSE), TRUE)

hasRole(h, role) == role \in h.roles

isAdmin(h) == hasRole(h, "admin")

isDeveloper(h) == hasRole(h, "developer")

isModerator(h) == hasRole(h, "moderator")

finalLoading(h) == h.loading \/ ~h.initialized

\* what the hook returns to its caller
useUserRole(h) ==
    [roles |-> h.roles, isAdmin |-> isAdmin(h), isDeveloper |-> isDeveloper(h),
     isModerator |-> isModerator(h), loading |-> finalLoading(h)]

------------------------------------------------------------------------------
(* UserProfile: useUserRole(id), id the route parameter *)

NoLookup == [id |-> None, n |-> 0, res |-> "none"]

NoOkRoles == [i \in Ids |-> <<>>]

UpUnmounted ==
    /\ upMounted = FALSE
    /\ upId = None
    /\ upHook = useStateInit
    /\ upRendered = [userId |-> None, ret |-> useUserRole(useStateInit)]
    /\ upIssued = 0
    /\ upLatest = "none"
    /\ upApplied = NoLookup
    /\ upOkRoles = NoOkRoles

\* One render of UserProfile with route parameter id and hook state h, and the
\* effect of useUserRole after it when userId is not the one rendered before
\* (first = the mount, whose effect always runs).
UpCommit(id, h, first) ==
    /\ upRendered' = [userId |-> id, ret |-> useUserRole(h)]
    /\ upOkRoles' = IF first THEN NoOkRoles ELSE upOkRoles
    /\ IF first \/ id # upRendered.userId
       THEN /\ upHook' = roleEffect(h, id)
            /\ IF id # None
               THEN /\ upIssued' = (IF first THEN 0 ELSE upIssued) + 1
                    /\ upReqs' = upReqs \cup {[id |-> id, n |-> upIssued', live |-> TRUE]}
                    /\ upLatest' = "pending"
                    /\ upApplied' = IF first THEN NoLookup ELSE upApplied
               ELSE /\ upIssued' = IF first THEN 0 ELSE upIssued
                    /\ upLatest' = "none"
                    /\ upApplied' = NoLookup
                    /\ UNCHANGED upReqs
       ELSE /\ upHook' = h
            /\ UNCHANGED <<upReqs, upIssued, upLatest, upApplied>>

\* The user opens /user/i.
UpMount(i) ==
    /\ ~upMounted
    /\ upMounted' = TRUE
    /\ upId' = i
    /\ UpCommit(i, useStateInit, TRUE)
    /\ UNCHANGED <<autoBatching, pageVars, user_roles, gateVars>>

\* The route changes from /user/A to /user/B: the same instance gets a new id.
UpSetId(i) ==
    /\ upMounted
    /\ i # upId
    /\ upIssued < MaxFetches
    /\ upId' = i
    /\ UNCHANGED <<autoBatching, pageVars, gateVars, user_roles, upMounted, upHook, upRendered,
                   upReqs, upIssued, upLatest, upApplied, upOkRoles>>

UpDirty == upRendered # [userId |-> upId, ret |-> useUserRole(upHook)]

UpRender ==
    /\ upMounted
    /\ UpDirty
    /\ UpCommit(upId, upHook, FALSE)
    /\ UNCHANGED <<autoBatching, pageVars, gateVars, user_roles, upMounted, upId>>

\* The response of lookup r arrives: res is "ok" or "error".
UpFetchDone(r, res) ==
    /\ r \in upReqs
    /\ upReqs' = upReqs \ {r}
    /\ IF r.live
       THEN /\ upHook' = IF res = "ok" THEN fetchRolesOk(upHook, selectRole(r.id))
                                       ELSE fetchRolesError(upHook)
            /\ upApplied' = [id |-> r.id, n |-> r.n, res |-> res]
            /\ upLatest' = IF r.n = upIssued THEN res ELSE upLatest
            /\ upOkRoles' = IF res = "ok"
                            THEN [upOkRoles EXCEPT ![r.id] = Append(@, upHook'.roles)]
                            ELSE upOkRoles
       ELSE UNCHANGED <<upHook, upApplied, upLatest, upOkRoles>>
    /\ UNCHANGED <<autoBatching, pageVars, gateVars, user_roles, upMounted, upId, upRendered, upIssued>>

\* The user leaves /user/:id.
UpUnmount ==
    /\ upMounted
    /\ upReqs' = {[r EXCEPT !.live = FALSE, !.n = 0] : r \in upReqs}
    /\ upMounted' = FALSE
    /\ upId' = None
    /\ upHook' = useStateInit
    /\ upRendered' = [userId |-> None, ret |-> useUserRole(useStateInit)]
    /\ upIssued' = 0
    /\ upLatest' = "none"
    /\ upApplied' = NoLookup
    /\ upOkRoles' = NoOkRoles
    /\ UNCHANGED <<autoBatching, pageVars, user_roles, gateVars>>


------------------------------------------------------------------------------
(* The router, the auth subsystem, AuthenticatedLayout and DevConsole *)

\* <Route path=... element={<AuthenticatedLayout>...}>
Protected == {"/upload", "/profile", "/dev-console"}

\* the routes outside AuthenticatedLayout that the gates navigate to
Public == {"/", "/auth"}

\* A request in flight carries the mount that issued it; the component that
\* issued r is still mounted.
Live(r) == alMounted /\ r.mount = alMounts

\* The roles of DevConsole's useUserRole come from no lookup.
NoRoles == [id |-> None, res |-> "none"]

\* What one render of DevConsole sees: its state and the return of useUserRole.
DcSnapshot(uid, ul, h) == [currentUserId |-> uid, userLoading |-> ul, ret |-> useUserRole(h)]

\* A dependency list without rolesLoading: the variant of DcCheckDeps under
\* which the end of the role lookup alone does not re-run the permission check.
DcCheckDepsWithoutRolesLoading(s) ==
    <<s.ret.isDeveloper, s.ret.isAdmin, s.userLoading, s.currentUserId>>

\* The dependencies of the permission-check effect that change while mounted.
DcCheckDeps(s) ==
    <<s.ret.isDeveloper, s.ret.isAdmin, s.ret.loading, s.userLoading, s.currentUserId>>

\* The dependencies of the stats effect.
DcStatsDeps(s) == <<s.ret.isDeveloper, s.ret.isAdmin>>

\* The condition of the permission-check effect.
willDeny(s) ==
    /\ ~s.userLoading
    /\ ~s.ret.loading
    /\ s.currentUserId # None
    /\ ~s.ret.isDeveloper
    /\ ~s.ret.isAdmin

\* What DevConsole returns: "loading", "null" or "console".
DcView(s) ==
    IF s.userLoading \/ s.ret.loading THEN "loading"
    ELSE IF ~s.ret.isDeveloper /\ ~s.ret.isAdmin THEN "null"
    ELSE "console"

\* What one render of useDevConsoleShortcut sees: currentUserId, and
\* hasAccess = isDeveloper || isAdmin, which its keydown listener closes over.
ScSnapshot(uid, h) == [currentUserId |-> uid, hasAccess |-> isDeveloper(h) \/ isAdmin(h)]

\* no keydown listener of the hook is registered
NoListeners == [b \in BOOLEAN |-> 0]

\* window.addEventListener("keydown", handleKeyDown), for a handleKeyDown that
\* closes over hasAccess
addEventListener(listeners, hasAccess) == [listeners EXCEPT ![hasAccess] = @ + 1]

\* window.removeEventListener("keydown", handleKeyDown): a function that is
\* not registered is ignored
removeEventListener(listeners, hasAccess) ==
    [listeners EXCEPT ![hasAccess] = IF @ > 0 THEN @ - 1 ELSE 0]

\* the effect on [navigate, hasAccess] without the cleanup it returns
keydownEffectWithoutCleanup(listeners, before, after) ==
    IF before = after THEN listeners ELSE addEventListener(listeners, after)

\* The effect on [navigate, hasAccess] after a render in which hasAccess
\* changed from before to after: the cleanup of the effect's last run, then
\* the effect.  A change of navigate alone replaces the listener by one that
\* closes over the same hasAccess.
keydownEffect(listeners, before, after) ==
    IF before = after THEN listeners
    ELSE addEventListener(removeEventListener(listeners, before), after)

\* if (loading || !user) return null; else <Layout>{children}</Layout>
Granted == alMounted /\ ~alLoading /\ alUser # None

\* AuthenticatedLayout and the DevConsole under it are unmounted: the
\* subscription is cancelled and the state is gone.  What they had in flight
\* stays in flight; the requests of useDevConsoleShortcut are dropped here,
\* because their continuations only set state, which React ignores after the
\* unmount.
Unmounted ==
    /\ alMounted' = FALSE
    /\ alUser' = None
    /\ alLoading' = TRUE
    /\ dcMounted' = FALSE
    /\ dcUserId' = None
    /\ dcUserLoading' = TRUE
    /\ dcHook' = useStateInit
    /\ dcStats' = "zero"
    /\ dcRendered' = DcSnapshot(None, TRUE, useStateInit)
    /\ scUserId' = None
    /\ scHook' = useStateInit
    /\ scRendered' = ScSnapshot(None, useStateInit)
    /\ scListeners' = removeEventListener(scListeners, scRendered.hasAccess)
    /\ scUserReqs' = 0
    /\ scRoleReqs' = {}

\* The user opens a protected route: AuthenticatedLayout mounts, renders null,
\* and the effects run: those of useDevConsoleShortcut (fetchUser is called,
\* the effect of useUserRole takes the branch of an absent userId, the keydown
\* listener is registered), then the one that calls getSession and subscribes
\* to auth changes.
UserOpens(r) ==
    /\ route \notin Protected
    /\ alMounts < MaxMounts
    /\ route' = r
    /\ alMounts' = alMounts + 1
    /\ alMounted' = TRUE
    /\ alUser' = None
    /\ alLoading' = TRUE
    /\ alSessionReqs' = alSessionReqs \cup {[mount |-> alMounts']}
    /\ scUserId' = None
    /\ scHook' = roleEffect(useStateInit, None)
    /\ scRendered' = ScSnapshot(None, useStateInit)
    /\ scListeners' = addEventListener(scListeners, ScSnapshot(None, useStateInit).hasAccess)
    /\ scUserReqs' = 1
    /\ scRoleReqs' = {}
    /\ UNCHANGED <<autoBatching, pageVars, user_roles, resolverVars, session, anonymous,
                   authEvents, navAuth, scNavs, consoleVars>>

\* The user leaves the protected route (a link, the back button).
UserLeaves(r) ==
    /\ route \in Protected
    /\ route' = r
    /\ Unmounted
    /\ UNCHANGED <<autoBatching, pageVars, user_roles, resolverVars, session, anonymous,
                   alSessionReqs, alMounts, authEvents, navAuth, scNavs, dcUserReqs,
                   dcRoleReqs, dcStatsReqs, dcRolesFor, dcToasts, dcNavs>>

\* DevConsole mounts: its first render sees the initial state, then the effects
\* run in order: fetchUser is called, the effect of useUserRole takes the branch
\* of an absent userId, and the permission check and the stats effect do nothing.
DcMount ==
    /\ ~willDeny(DcSnapshot(None, TRUE, useStateInit))
    /\ dcMounted' = TRUE
    /\ dcUserId' = None
    /\ dcUserLoading' = TRUE
    /\ dcHook' = roleEffect(useStateInit, None)
    /\ dcStats' = "zero"
    /\ dcRendered' = DcSnapshot(None, TRUE, useStateInit)
    /\ dcUserReqs' = dcUserReqs \cup {[mount |-> alMounts]}
    /\ dcRolesFor' = NoRoles
    /\ dcToasts' = 0
    /\ dcNavs' = 0
    /\ UNCHANGED <<dcRoleReqs, dcStatsReqs>>

\* A getSession callback without the navigate("/auth"): the variant of
\* AlSessionDone that only stores what it was given.
AlSessionDoneWithoutRedirect(req) ==
    /\ req \in alSessionReqs
    /\ alSessionReqs' = alSessionReqs \ {req}
    /\ UNCHANGED <<route, navAuth, alMounted, shortcutVars>>
    /\ IF Live(req)
       THEN /\ alUser' = session
            /\ alLoading' = FALSE
            /\ IF route = "/dev-console" /\ ~dcMounted /\ session # None
               THEN DcMount
               ELSE UNCHANGED consoleVars
       ELSE UNCHANGED <<alUser, alLoading, consoleVars>>
    /\ UNCHANGED <<autoBatching, pageVars, user_roles, resolverVars, session, anonymous, alMounts, authEvents>>

\* getSession().then(...): setUser, navigate("/auth") when there is no user,
\* setLoading(false); then the render, which mounts the children when granted.
AlSessionDone(req) ==
    /\ req \in alSessionReqs
    /\ alSessionReqs' = alSessionReqs \ {req}
    /\ IF session = None
       THEN /\ route' = "/auth"
            /\ navAuth' = navAuth + 1
            /\ Unmounted
            /\ UNCHANGED <<scNavs, dcUserReqs, dcRoleReqs, dcStatsReqs, dcRolesFor, dcToasts,
                           dcNavs>>
       ELSE /\ UNCHANGED <<route, navAuth, alMounted, shortcutVars>>
            /\ IF Live(req)
               THEN /\ alUser' = session
                    /\ alLoading' = FALSE
                    /\ IF route = "/dev-console" /\ ~dcMounted
                       THEN DcMount
                       ELSE UNCHANGED consoleVars
               ELSE UNCHANGED <<alUser, alLoading, consoleVars>>
    /\ UNCHANGED <<autoBatching, pageVars, user_roles, resolverVars, session, anonymous, alMounts, authEvents>>

\* A subscription callback without the navigate("/auth"): the variant of
\* AuthStateChange that only stores the user it was given.
AuthStateChangeWithoutRedirect(s) ==
    /\ authEvents < MaxAuthEvents
    /\ s # session \/ alMounted
    /\ session' = s
    /\ anonymous' = (anonymous /\ s = None)
    /\ authEvents' = authEvents + 1
    /\ alUser' = IF alMounted THEN s ELSE alUser
    /\ UNCHANGED <<route, navAuth, alMounted, alLoading, shortcutVars, consoleVars>>
    /\ UNCHANGED <<autoBatching, pageVars, user_roles, resolverVars, alSessionReqs, alMounts>>

\* onAuthStateChange((_event, session) => ...): the auth subsystem reports a
\* session s (sign-in, sign-out, a refreshed or the initial session).
AuthStateChange(s) ==
    /\ authEvents < MaxAuthEvents
    /\ s # session \/ alMounted
    /\ session' = s
    /\ anonymous' = (anonymous /\ s = None)
    /\ authEvents' = authEvents + 1
    /\ IF alMounted
       THEN IF s = None
            THEN /\ route' = "/auth"
                 /\ navAuth' = navAuth + 1
                 /\ Unmounted
                 /\ UNCHANGED <<scNavs, dcUserReqs, dcRoleReqs, dcStatsReqs, dcRolesFor,
                                dcToasts, dcNavs>>
            ELSE /\ alUser' = s
                 /\ UNCHANGED <<route, navAuth, alMounted, alLoading, shortcutVars,
                                consoleVars>>
       ELSE UNCHANGED <<route, navAuth, alMounted, alUser, alLoading, shortcutVars,
                        consoleVars>>
    /\ UNCHANGED <<autoBatching, pageVars, user_roles, resolverVars, alSessionReqs, alMounts>>

\* DevConsole as one value: its state, its last render, what it has issued, the
\* identity whose lookup gave the hook its roles, and whether its permission
\* check has denied (and so unmounted it).
DcNow ==
    [currentUserId |-> dcUserId, userLoading |-> dcUserLoading, hook |-> dcHook,
     rendered |-> dcRendered, roleReqs |-> dcRoleReqs, statsReqs |-> dcStatsReqs,
     rolesFor |-> dcRolesFor, denied |-> FALSE]

\* A render of DevConsole in state c and the effects after it: the effect of
\* useUserRole when currentUserId changed, then the permission check when one
\* of its dependencies changed, then the stats effect.  The effects read the
\* values of this render.  Once the check has denied, the component is gone
\* and nothing more is rendered.
DcCommit(c) ==
    IF c.denied THEN c
    ELSE LET s == DcSnapshot(c.currentUserId, c.userLoading, c.hook)
             runRole == s.currentUserId # c.rendered.currentUserId
             stats == /\ DcStatsDeps(s) # DcStatsDeps(c.rendered)
                      /\ s.ret.isDeveloper \/ s.ret.isAdmin
         IN  [c EXCEPT
                 !.rendered = s,
                 !.hook = IF runRole THEN roleEffect(c.hook, c.currentUserId) ELSE c.hook,
                 !.roleReqs = IF runRole /\ c.currentUserId # None
                              THEN c.roleReqs \cup {[id |-> c.currentUserId, mount |-> alMounts]}
                              ELSE c.roleReqs,
                 !.rolesFor = IF runRole /\ c.currentUserId = None THEN NoRoles ELSE c.rolesFor,
                 !.denied = DcCheckDeps(s) # DcCheckDeps(c.rendered) /\ willDeny(s),
                 !.statsReqs = IF stats THEN c.statsReqs \cup {[mount |-> alMounts]}
                               ELSE c.statsReqs]

\* The step ends with DevConsole as c: when its check denied, the toast and
\* navigate("/"), which unmounts AuthenticatedLayout and DevConsole.
DcBecomes(c) ==
    /\ dcRoleReqs' = c.roleReqs
    /\ dcStatsReqs' = c.statsReqs
    /\ dcRolesFor' = c.rolesFor
    /\ UNCHANGED scNavs
    /\ IF c.denied
       THEN /\ dcToasts' = dcToasts + 1
            /\ dcNavs' = dcNavs + 1
            /\ route' = "/"
            /\ Unmounted
       ELSE /\ dcUserId' = c.currentUserId
            /\ dcUserLoading' = c.userLoading
            /\ dcHook' = c.hook
            /\ dcRendered' = c.rendered
            /\ UNCHANGED <<route, alMounted, alUser, alLoading, scState, dcMounted, dcStats,
                           dcToasts, dcNavs>>

\* fetchUser after the await: setCurrentUserId(user?.id || null); setUserLoading(false)
DcUserDone(req) ==
    /\ req \in dcUserReqs
    /\ dcUserReqs' = dcUserReqs \ {req}
    /\ LET c1 == [DcNow EXCEPT !.currentUserId = session]
           u1 == DcCommit(c1)
       IN  IF ~Live(req) THEN DcBecomes(DcNow)
           ELSE IF autoBatching THEN DcBecomes([c1 EXCEPT !.userLoading = FALSE])
           ELSE DcBecomes(DcCommit([u1 EXCEPT !.userLoading = FALSE]))
    /\ UNCHANGED <<autoBatching, pageVars, user_roles, resolverVars, session, anonymous, alSessionReqs, alMounts,
                   authEvents, navAuth>>

DcDirty == dcRendered # DcSnapshot(dcUserId, dcUserLoading, dcHook)

\* React renders DevConsole with the state updates that are pending.
DcRender ==
    /\ dcMounted
    /\ DcDirty
    /\ DcBecomes(DcCommit(DcNow))
    /\ UNCHANGED <<autoBatching, pageVars, user_roles, resolverVars, session, anonymous, alSessionReqs, alMounts,
                   authEvents, navAuth, dcUserReqs>>

\* fetchRoles of DevConsole's useUserRole after the await: setRoles in try or
\* catch, then setLoading(false) and setInitialized(true) in finally.
DcRoleDone(req, res) ==
    /\ req \in dcRoleReqs
    /\ LET roles == IF res = "ok" THEN fetchedRoles(selectRole(req.id)) ELSE {}
           c0 == [DcNow EXCEPT !.roleReqs = dcRoleReqs \ {req}]
           c1 == [c0 EXCEPT !.rolesFor = [id |-> req.id, res |-> res]]
           c3 == [c1 EXCEPT !.hook = IF res = "ok"
                                     THEN fetchRolesOk(c1.hook, selectRole(req.id))
                                     ELSE fetchRolesError(c1.hook)]
           u1 == DcCommit([c1 EXCEPT !.hook = setRoles(c1.hook, roles)])
           u2 == DcCommit([u1 EXCEPT !.hook = setLoading(u1.hook, FALSE)])
           u3 == DcCommit([u2 EXCEPT !.hook = setInitialized(u2.hook, TRUE)])
       IN  IF ~Live(req) THEN DcBecomes(c0)
           ELSE IF autoBatching THEN DcBecomes(c3)
           ELSE DcBecomes(u3)
    /\ UNCHANGED <<autoBatching, pageVars, user_roles, resolverVars, session, anonymous, alSessionReqs, alMounts,
                   authEvents, navAuth, dcUserReqs>>

\* fetchStats after the await: setStats(...)
DcStatsDone(req) ==
    /\ req \in dcStatsReqs
    /\ dcStatsReqs' = dcStatsReqs \ {req}
    /\ dcStats' = IF Live(req) THEN "loaded" ELSE dcStats
    /\ UNCHANGED <<autoBatching, pageVars, user_roles, resolverVars, session, anonymous,
                   route, layoutVars, shortcutVars, dcMounted, dcUserId, dcUserLoading, dcHook, dcRendered, dcUserReqs,
                   dcRoleReqs, dcRolesFor, dcToasts, dcNavs>>

------------------------------------------------------------------------------
(* useDevConsoleShortcut, called by AuthenticatedLayout *)

\* A render of the hook with currentUserId uid and role state h, and the
\* effects after it: the effect of useUserRole when currentUserId changed, and
\* the keydown listener is replaced by one that closes over this render's
\* hasAccess.
ScCommit(uid, h) ==
    LET runRole == uid # scRendered.currentUserId
    IN  /\ scRendered' = ScSnapshot(uid, h)
        /\ scListeners' = keydownEffect(scListeners, scRendered.hasAccess,
                                        ScSnapshot(uid, h).hasAccess)
        /\ scHook' = IF runRole THEN roleEffect(h, uid) ELSE h
        /\ scRoleReqs' = IF runRole /\ uid # None
                         THEN scRoleReqs \cup {[id |-> uid]}
                         ELSE scRoleReqs

\* fetchUser after the await: setCurrentUserId(user?.id || null)
ScUserDone ==
    /\ scUserReqs > 0
    /\ scUserReqs' = scUserReqs - 1
    /\ scUserId' = session
    /\ IF autoBatching THEN UNCHANGED <<scHook, scRendered, scListeners, scRoleReqs>>
       ELSE ScCommit(session, scHook)
    /\ UNCHANGED <<autoBatching, pageVars, user_roles, resolverVars, session, anonymous,
                   route, layoutVars, scNavs, consoleVars>>

ScDirty == scRendered # ScSnapshot(scUserId, scHook)

\* React renders AuthenticatedLayout with the state updates of the hook that
\* are pending.
ScRender ==
    /\ alMounted
    /\ ScDirty
    /\ ScCommit(scUserId, scHook)
    /\ UNCHANGED <<autoBatching, pageVars, user_roles, resolverVars, session, anonymous,
                   route, layoutVars, scUserId, scUserReqs, scNavs, consoleVars>>

\* fetchRoles of the hook's useUserRole after the await.  Only roles reaches
\* hasAccess, so the renders of a legacy root after setRoles, setLoading and
\* setInitialized end as the one render of a batching root does.
ScRoleDone(req, res) ==
    /\ req \in scRoleReqs
    /\ LET h == IF res = "ok" THEN fetchRolesOk(scHook, selectRole(req.id))
                ELSE fetchRolesError(scHook)
       IN  /\ scRoleReqs' = scRoleReqs \ {req}
           /\ scHook' = h
           /\ scRendered' = IF autoBatching THEN scRendered ELSE ScSnapshot(scUserId, h)
           /\ scListeners' = IF autoBatching THEN scListeners
                              ELSE keydownEffect(scListeners, scRendered.hasAccess,
                                                 ScSnapshot(scUserId, h).hasAccess)
    /\ UNCHANGED <<autoBatching, pageVars, user_roles, resolverVars, session, anonymous,
                   route, layoutVars, scUserId, scUserReqs, scNavs, consoleVars>>

\* A Ctrl/Cmd+Alt+D key press reaches the registered listeners; handleKeyDown:
\* if (hasAccess) navigate("/dev-console").
\* The route changes under the same AuthenticatedLayout, which stays mounted;
\* DevConsole mounts as its child when the layout renders children.
handleKeyDown ==
    /\ alMounted
    /\ IF scListeners[TRUE] > 0
       THEN /\ scNavs < MaxKeys
            /\ scNavs' = scNavs + 1
            /\ route' = "/dev-console"
            /\ IF Granted /\ ~dcMounted THEN DcMount ELSE UNCHANGED consoleVars
       ELSE UNCHANGED <<scNavs, route, consoleVars>>
    /\ UNCHANGED <<autoBatching, pageVars, user_roles, resolverVars, session, anonymous,
                   layoutVars, scState>>

------------------------------------------------------------------------------
(* ArtworkDetail: the favorite button *)

\* The texts of the toasts of ArtworkDetail that are modelled.
FavoriteToasts ==
    {"Sign in required", "Removed from favorites", "Added to favorites",
     "Failed to update favorites", "Failed to load artwork"}

\* toast({...}): one more toast with this text
toast(shown, text) == [shown EXCEPT ![text] = @ + 1]

\* fetchCurrentUser after the await: setCurrentUserId(user?.id || null); the
\* effect on [currentUserId, id] then calls checkIfFavorited for a user.
AdUserDone ==
    /\ adUserReq
    /\ adUserReq' = FALSE
    /\ adCurrentUserId' = session
    /\ adCheckReqs' = IF session # None THEN adCheckReqs \cup {[user |-> session]}
                      ELSE adCheckReqs
    /\ UNCHANGED <<autoBatching, user_roles, resolverVars, gateVars, moreVars, commentVars, favorites,
                   adIsFavorited, adFavoriteCount, adArtworkReq, adToggleReqs, adToggles,
                   adToasts, adFailed>>

\* checkIfFavorited after the await: setIsFavorited(!!data); data is null when
\* there is no row and when the query returned an error.
CheckIfFavoritedDone(r, res) ==
    /\ r \in adCheckReqs
    /\ adCheckReqs' = adCheckReqs \ {r}
    /\ adIsFavorited' = (res = "ok" /\ r.user \in favorites)
    /\ adFailed' = (adFailed \/ res # "ok")
    /\ UNCHANGED <<autoBatching, user_roles, resolverVars, gateVars, moreVars, commentVars, favorites,
                   adCurrentUserId, adFavoriteCount, adUserReq, adArtworkReq, adToggleReqs,
                   adToggles, adToasts>>

\* fetchArtwork after its last await: setFavoriteCount(count || 0); or, when an
\* earlier query of it failed, the catch block's toast.
FetchArtworkDone(res) ==
    /\ adArtworkReq
    /\ adArtworkReq' = FALSE
    /\ adFailed' = (adFailed \/ res # "ok")
    /\ IF res = "ok"
       THEN /\ adFavoriteCount' = Cardinality(favorites)
            /\ UNCHANGED adToasts
       ELSE /\ adToasts' = toast(adToasts, "Failed to load artwork")
            /\ UNCHANGED adFavoriteCount
    /\ UNCHANGED <<autoBatching, user_roles, resolverVars, gateVars, moreVars, commentVars, favorites,
                   adCurrentUserId, adIsFavorited, adUserReq, adCheckReqs, adToggleReqs,
                   adToggles>>

\* toggleFavorite up to its await: the sign-in check, then the delete or the
\* insert is sent.  isFavorited and favoriteCount are those of the render the
\* click happened in, and the continuation keeps them.
toggleFavorite ==
    /\ adToggles < MaxToggles
    /\ adToggles' = adToggles + 1
    /\ IF adCurrentUserId = None
       THEN /\ adToasts' = toast(adToasts, "Sign in required")
            /\ UNCHANGED adToggleReqs
       ELSE /\ adToggleReqs' = adToggleReqs \cup
                    {[n |-> adToggles', user |-> adCurrentUserId,
                      isFavorited |-> adIsFavorited, favoriteCount |-> adFavoriteCount,
                      result |-> "pending"]}
            /\ UNCHANGED adToasts
    /\ UNCHANGED <<autoBatching, user_roles, resolverVars, gateVars, moreVars, commentVars, favorites,
                   adCurrentUserId, adIsFavorited, adFavoriteCount, adUserReq, adArtworkReq,
                   adCheckReqs, adFailed>>

\* The delete or insert on favorites of call r is answered: "ok" when it was
\* carried out, "error" when the promise resolves with { error } (how
\* supabase-js reports a failed query), "throw" when the promise rejects.
FavoritesWrite(r, res) ==
    /\ r \in adToggleReqs
    /\ r.result = "pending"
    /\ favorites' = IF res # "ok" THEN favorites
                    ELSE IF r.isFavorited THEN favorites \ {r.user}
                    ELSE favorites \cup {r.user}
    /\ adToggleReqs' = (adToggleReqs \ {r}) \cup {[r EXCEPT !.result = res]}
    /\ adFailed' = (adFailed \/ res # "ok")
    /\ UNCHANGED <<autoBatching, user_roles, resolverVars, gateVars, moreVars, commentVars,
                   adCurrentUserId, adIsFavorited, adFavoriteCount, adUserReq, adArtworkReq,
                   adCheckReqs, adToggles, adToasts>>

\* toggleFavorite after its await: the result of the await is not looked at, so
\* only a rejected promise reaches the catch block.
toggleFavoriteResume(r) ==
    /\ r \in adToggleReqs
    /\ r.result # "pending"
    /\ adToggleReqs' = adToggleReqs \ {r}
    /\ IF r.result = "throw"
       THEN /\ adToasts' = toast(adToasts, "Failed to update favorites")
            /\ UNCHANGED <<adIsFavorited, adFavoriteCount>>
       ELSE IF r.isFavorited
       THEN /\ adIsFavorited' = FALSE
            /\ adFavoriteCount' = r.favoriteCount - 1
            /\ adToasts' = toast(adToasts, "Removed from favorites")
       ELSE /\ adIsFavorited' = TRUE
            /\ adFavoriteCount' = r.favoriteCount + 1
            /\ adToasts' = toast(adToasts, "Added to favorites")
    /\ UNCHANGED <<autoBatching, user_roles, resolverVars, gateVars, moreVars, commentVars, favorites,
                   adCurrentUserId, adUserReq, adArtworkReq, adCheckReqs, adToggles, adFailed>>

\* ArtworkDetail is not mounted.
FavoriteIdle ==
    /\ favorites = {}
    /\ adFailed = FALSE
    /\ adCurrentUserId = None
    /\ adIsFavorited = FALSE
    /\ adFavoriteCount = 0
    /\ adUserReq = FALSE
    /\ adArtworkReq = FALSE
    /\ adCheckReqs = {}
    /\ adToggleReqs = {}
    /\ adToggles = 0
    /\ adToasts = [t \in FavoriteToasts |-> 0]

------------------------------------------------------------------------------
(* CommentSection: posting a comment *)

\* .max(1000, ...) of commentSchema
MaxCommentLength == 1000

\* A text is its leading white space, its trimmed text and its trailing white
\* space, each by its length.  A text of white space only has core = 0.
CoreLengths == {0, 1, MaxCommentLength, MaxCommentLength + 1}

Contents ==
    {c \in [lead : 0..MaxPad, core : CoreLengths, trail : 0..MaxPad] : c.lead + c.trail <= MaxPad}

\* useState("")
EmptyContent == [lead |-> 0, core |-> 0, trail |-> 0]

\* s.length
length(c) == c.lead + c.core + c.trail

\* s.trim()
trim(c) == [lead |-> 0, core |-> c.core, trail |-> 0]

\* commentSchema.parse without the .trim(): the variant of commentSchema that
\* measures the text as it was typed.
commentSchemaWithoutTrim(c) ==
    IF length(c) < 1 THEN [success |-> FALSE, content |-> c]
    ELSE IF length(c) > MaxCommentLength THEN [success |-> FALSE, content |-> c]
    ELSE [success |-> TRUE, content |-> c]

\* commentSchema.parse({ content }): trim, then min(1), then max(1000); throws
\* a ZodError (success = FALSE) or returns the trimmed content.
commentSchema(c) ==
    IF length(trim(c)) < 1 THEN [success |-> FALSE, content |-> trim(c)]
    ELSE IF length(trim(c)) > MaxCommentLength THEN [success |-> FALSE, content |-> trim(c)]
    ELSE [success |-> TRUE, content |-> trim(c)]

\* The titles of the toasts of CommentSection that are modelled.
CommentToasts ==
    {"Sign in required", "Invalid comment", "Comment posted successfully", "Error"}

\* fetchCurrentUser after the await: setCurrentUserId(user?.id || null)
CsUserDone ==
    /\ csUserReq
    /\ csUserReq' = FALSE
    /\ csCurrentUserId' = session
    /\ UNCHANGED <<autoBatching, user_roles, resolverVars, gateVars, moreVars, favoriteVars, comments,
                   csComments, csNewComment, csIsSubmitting, csFetchReqs, csInsertReqs,
                   csSubmits, csToasts>>

\* fetchComments after its awaits: setComments(commentsWithProfiles), or the
\* catch block, which only logs.
FetchCommentsDone(res) ==
    /\ csFetchReqs > 0
    /\ csFetchReqs' = csFetchReqs - 1
    /\ csComments' = IF res = "ok" THEN comments ELSE csComments
    /\ UNCHANGED <<autoBatching, user_roles, resolverVars, gateVars, moreVars, favoriteVars, comments,
                   csCurrentUserId, csNewComment, csIsSubmitting, csUserReq, csInsertReqs,
                   csSubmits, csToasts>>

\* onChange={(e) => setNewComment(e.target.value)}; the Textarea is rendered
\* for a signed-in user only.  maxLength={1000} limits what a browser accepts
\* from the keyboard; the text delivered here is any text.  Typing is followed
\* up to the last submission.
onChange(c) ==
    /\ csCurrentUserId # None
    /\ csSubmits < MaxSubmits
    /\ c # csNewComment
    /\ csNewComment' = c
    /\ UNCHANGED <<autoBatching, user_roles, resolverVars, gateVars, moreVars, favoriteVars, comments,
                   csCurrentUserId, csComments, csIsSubmitting, csUserReq, csFetchReqs,
                   csInsertReqs, csSubmits, csToasts>>

\* The Post Comment button: disabled={isSubmitting || !newComment.trim()}
postDisabled == csIsSubmitting \/ length(trim(csNewComment)) = 0

\* handleSubmitComment up to its await: the sign-in check, the validation, and
\* either the ZodError's toast and the finally block, or setIsSubmitting(true)
\* and the insert is sent.  The handler does not look at what disables its
\* button; viaButton tells a click on the enabled button from any other call.
handleSubmitComment(viaButton) ==
    /\ csSubmits < MaxSubmits
    /\ viaButton => csCurrentUserId # None /\ ~postDisabled
    /\ csSubmits' = csSubmits + 1
    /\ LET validatedData == commentSchema(csNewComment)
       IN  IF csCurrentUserId = None
           THEN /\ csToasts' = toast(csToasts, "Sign in required")
                /\ UNCHANGED <<csIsSubmitting, csInsertReqs>>
           ELSE IF ~validatedData.success
           THEN /\ csToasts' = toast(csToasts, "Invalid comment")
                /\ csIsSubmitting' = FALSE
                /\ UNCHANGED csInsertReqs
           ELSE /\ csIsSubmitting' = TRUE
                /\ csInsertReqs' = csInsertReqs \cup
                       {[n |-> csSubmits', user |-> csCurrentUserId,
                         content |-> validatedData.content, result |-> "pending"]}
                /\ UNCHANGED csToasts
    /\ UNCHANGED <<autoBatching, user_roles, resolverVars, gateVars, moreVars, favoriteVars, comments,
                   csCurrentUserId, csComments, csNewComment, csUserReq, csFetchReqs>>

\* The insert on comments of call r is answered: "ok" when the row was added,
\* "error" when the promise resolves with { error }, "throw" when it rejects.
CommentsInsert(r, res) ==
    /\ r \in csInsertReqs
    /\ r.result = "pending"
    /\ comments' = IF res = "ok"
                   THEN <<[user_id |-> r.user, content |-> r.content]>> \o comments
                   ELSE comments
    /\ csInsertReqs' = (csInsertReqs \ {r}) \cup {[r EXCEPT !.result = res]}
    /\ UNCHANGED <<autoBatching, user_roles, resolverVars, gateVars, moreVars, favoriteVars,
                   csCurrentUserId, csComments, csNewComment, csIsSubmitting, csUserReq,
                   csFetchReqs, csSubmits, csToasts>>

\* A continuation without if (error) throw error: the variant of
\* handleSubmitCommentResume that takes an insert answered with { error } for
\* a success.
handleSubmitCommentResumeWithoutErrorCheck(r) ==
    /\ r \in csInsertReqs
    /\ r.result # "pending"
    /\ csInsertReqs' = csInsertReqs \ {r}
    /\ csIsSubmitting' = FALSE
    /\ IF r.result # "throw"
       THEN /\ csNewComment' = EmptyContent
            /\ csToasts' = toast(csToasts, "Comment posted successfully")
            /\ csFetchReqs' = csFetchReqs + 1
       ELSE /\ csToasts' = toast(csToasts, "Error")
            /\ UNCHANGED <<csNewComment, csFetchReqs>>
    /\ UNCHANGED <<autoBatching, user_roles, resolverVars, gateVars, moreVars, favoriteVars, comments,
                   csCurrentUserId, csComments, csUserReq, csSubmits>>

\* handleSubmitComment after its await: if (error) throw error; then the input
\* is cleared, the success toast is shown and fetchComments is called; or the
\* catch block's toast; and the finally block.
handleSubmitCommentResume(r) ==
    /\ r \in csInsertReqs
    /\ r.result # "pending"
    /\ csInsertReqs' = csInsertReqs \ {r}
    /\ csIsSubmitting' = FALSE
    /\ IF r.result = "ok"
       THEN /\ csNewComment' = EmptyContent
            /\ csToasts' = toast(csToasts, "Comment posted successfully")
            /\ csFetchReqs' = csFetchReqs + 1
       ELSE /\ csToasts' = toast(csToasts, "Error")
            /\ UNCHANGED <<csNewComment, csFetchReqs>>
    /\ UNCHANGED <<autoBatching, user_roles, resolverVars, gateVars, moreVars, favoriteVars, comments,
                   csCurrentUserId, csComments, csUserReq, csSubmits>>

\* CommentSection is not mounted.
CommentIdle ==
    /\ comments = <<>>
    /\ csCurrentUserId = None
    /\ csComments = <<>>
    /\ csNewComment = EmptyContent
    /\ csIsSubmitting = FALSE
    /\ csUserReq = FALSE
    /\ csFetchReqs = 0
    /\ csInsertReqs = {}
    /\ csSubmits = 0
    /\ csToasts = [t \in CommentToasts |-> 0]

------------------------------------------------------------------------------
(* ArtworkDetail: the view counter *)

\* The browsers that show ArtworkDetail, and the artworks.
Clients == {"c1", "c2"}

Artworks == {"a1", "a2"}

\* An UPDATE without its WHERE clause: the variant of increment_view_count that
\* counts the view for every artwork.
increment_view_countWithoutWhere(rows, artwork_id) == [a \in DOMAIN rows |-> rows[a] + 1]

\* public.increment_view_count(artwork_id): one UPDATE, which the database
\* carries out as one step on the row it locks:
\*   UPDATE public.artworks SET view_count = view_count + 1 WHERE id = artwork_id
increment_view_count(rows, artwork_id) ==
    [a \in DOMAIN rows |-> IF a = artwork_id THEN rows[a] + 1 ELSE rows[a]]

\* incrementViewCount(): supabase.rpc("increment_view_count", { artwork_id: id });
\* nothing is done with the answer.
incrementViewCount(id) == vwCalls' = [vwCalls EXCEPT ![id] = @ + 1]

\* The sum of the views of all artworks.
RECURSIVE Total(_, _)
Total(f, S) == IF S = {} THEN 0 ELSE LET a == CHOOSE x \in S : TRUE
                                     IN  f[a] + Total(f, S \ {a})

\* Browser c opens /artwork/id: ArtworkDetail mounts and the effect on [id]
\* calls fetchArtwork() and incrementViewCount().
AdMount(c, id) ==
    /\ vwId[c] = None
    /\ Total(vwViews, Artworks) < MaxViews
    /\ vwId' = [vwId EXCEPT ![c] = id]
    /\ vwViews' = [vwViews EXCEPT ![id] = @ + 1]
    /\ incrementViewCount(id)
    /\ UNCHANGED <<appVars, uploadVars, followVars, view_count, vwInitial>>

\* The route of browser c changes to /artwork/id for another id: the same
\* ArtworkDetail renders with the new id and the effect on [id] runs again.
AdSetId(c, id) ==
    /\ vwId[c] \notin {None, id}
    /\ Total(vwViews, Artworks) < MaxViews
    /\ vwId' = [vwId EXCEPT ![c] = id]
    /\ vwViews' = [vwViews EXCEPT ![id] = @ + 1]
    /\ incrementViewCount(id)
    /\ UNCHANGED <<appVars, uploadVars, followVars, view_count, vwInitial>>

\* Browser c leaves the artwork page; the call it made stays in flight.
AdUnmount(c) ==
    /\ vwId[c] # None
    /\ vwId' = [vwId EXCEPT ![c] = None]
    /\ UNCHANGED <<appVars, uploadVars, followVars, view_count, vwInitial, vwCalls, vwViews>>

\* The database runs one of the calls in flight.
IncrementViewCountRuns(artwork_id) ==
    /\ vwCalls[artwork_id] > 0
    /\ vwCalls' = [vwCalls EXCEPT ![artwork_id] = @ - 1]
    /\ view_count' = increment_view_count(view_count, artwork_id)
    /\ UNCHANGED <<appVars, uploadVars, followVars, vwInitial, vwId, vwViews>>

\* No browser shows an artwork.
ViewIdle ==
    /\ view_count = [a \in Artworks |-> 0]
    /\ vwInitial = view_count
    /\ vwId = [c \in Clients |-> None]
    /\ vwCalls = [a \in Artworks |-> 0]
    /\ vwViews = [a \in Artworks |-> 0]

------------------------------------------------------------------------------
(* Upload: handleSubmit and its tags *)

\* The characters of the model: a lower-case letter, its upper-case form,
\* white space and the comma.
Chars == {"a", "A", " ", ","}

\* The texts of the tags input.
TagInputs == UNION {[1..n -> Chars] : n \in 0..MaxTagChars}

\* s.split(","): the pieces between the commas, "" for none
RECURSIVE split(_)
split(s) ==
    IF \A i \in 1..Len(s) : s[i] # "," THEN <<s>>
    ELSE LET i == CHOOSE k \in 1..Len(s) : s[k] = "," /\ \A j \in 1..(k - 1) : s[j] # ","
         IN  <<SubSeq(s, 1, i - 1)>> \o split(SubSeq(s, i + 1, Len(s)))

\* s.trim() of a sequence of characters
RECURSIVE tagTrim(_)
tagTrim(s) ==
    IF s = <<>> THEN s
    ELSE IF Head(s) = " " THEN tagTrim(Tail(s))
    ELSE IF s[Len(s)] = " " THEN tagTrim(SubSeq(s, 1, Len(s) - 1))
    ELSE s

\* s.toLowerCase()
toLowerCase(s) == [i \in 1..Len(s) |-> IF s[i] = "A" THEN "a" ELSE s[i]]

nonEmpty(t) == t # <<>>

\* tags.split(",").map((t) => t.trim()).filter(Boolean)
tagNames(tags) ==
    LET pieces == split(tags)
    IN  SelectSeq([i \in 1..Len(pieces) |-> tagTrim(pieces[i])], nonEmpty)

\* The titles of the toasts of Upload.
UploadToasts == {"Error", "Success!", "Upload failed"}

\* The last request of a log is answered with res.
answered(log, res) == [log EXCEPT ![Len(log)].res = res]

\* An upsert whose error is not looked at: the variant of afterUpsert that
\* goes on to the link insert whatever the upsert returned.
afterUpsertWithoutContinue(res) == "link"

\* if (tagError) continue; else the link insert
afterUpsert(res) == IF res = "error" THEN "continue" ELSE "link"

\* The for loop over the tag names that are left, up to its next await: the
\* upsert of the first one; after the last one the success toast and
\* navigate("/"), and the finally block.
tagLoop(todo, upserts) ==
    /\ ulTodo' = todo
    /\ IF todo = <<>>
       THEN /\ ulUpserts' = upserts
            /\ ulToasts' = toast(ulToasts, "Success!")
            /\ ulNavs' = ulNavs + 1
            /\ ulPhase' = "done"
            /\ ulLoading' = FALSE
       ELSE /\ ulUpserts' = Append(upserts, [name |-> toLowerCase(Head(todo)), res |-> "pending"])
            /\ ulPhase' = "upsert"
            /\ UNCHANGED <<ulToasts, ulNavs, ulLoading>>

\* The catch block and the finally block: the form is shown again.
uploadFailed ==
    /\ ulToasts' = toast(ulToasts, "Upload failed")
    /\ ulPhase' = "form"
    /\ ulLoading' = FALSE
    /\ UNCHANGED <<ulTodo, ulUpserts, ulLinks, ulNavs>>

\* handleSubmit up to its first await: without a file the "Error" toast and
\* return, else setLoading(true) and getUser.
handleSubmit ==
    /\ ulPhase = "form"
    /\ ulSubmits < MaxUploads
    /\ ulSubmits' = ulSubmits + 1
    /\ IF ~ulFile
       THEN /\ ulToasts' = toast(ulToasts, "Error")
            /\ UNCHANGED <<ulPhase, ulTodo, ulUpserts, ulLinks, ulLoading, ulSteps>>
       ELSE /\ ulPhase' = "getUser"
            /\ ulLoading' = TRUE
            /\ ulSteps' = <<[call |-> "getUser", res |-> "pending"]>>
            /\ ulTodo' = <<>>
            /\ ulUpserts' = <<>>
            /\ ulLinks' = <<>>
            /\ UNCHANGED ulToasts
    /\ UNCHANGED <<appVars, viewVars, followVars, ulTags, ulFile, ulNavs>>

\* after getUser: if (!user) throw new Error("Not authenticated"); then the
\* upload to storage
UlUserDone ==
    /\ ulPhase = "getUser"
    /\ IF session = None
       THEN /\ ulSteps' = answered(ulSteps, "error")
            /\ uploadFailed
       ELSE /\ ulSteps' = Append(answered(ulSteps, "ok"), [call |-> "upload", res |-> "pending"])
            /\ ulPhase' = "upload"
            /\ UNCHANGED <<ulTodo, ulUpserts, ulLinks, ulToasts, ulNavs, ulLoading>>
    /\ UNCHANGED <<appVars, viewVars, followVars, ulTags, ulFile, ulSubmits>>

\* the continuation after the upload to storage without
\* "if (uploadError) throw uploadError"
StorageUploadDoneWithoutThrow(res) ==
    /\ ulPhase = "upload"
    /\ ulSteps' = Append(answered(ulSteps, res), [call |-> "insert", res |-> "pending"])
    /\ ulPhase' = "insert"
    /\ UNCHANGED <<ulTodo, ulUpserts, ulLinks, ulToasts, ulNavs, ulLoading>>
    /\ UNCHANGED <<appVars, viewVars, followVars, ulTags, ulFile, ulSubmits>>

\* after the upload to storage: if (uploadError) throw uploadError; then the
\* insert on artworks
StorageUploadDone(res) ==
    /\ ulPhase = "upload"
    /\ IF res = "error"
       THEN /\ ulSteps' = answered(ulSteps, "error")
            /\ uploadFailed
       ELSE /\ ulSteps' = Append(answered(ulSteps, "ok"), [call |-> "insert", res |-> "pending"])
            /\ ulPhase' = "insert"
            /\ UNCHANGED <<ulTodo, ulUpserts, ulLinks, ulToasts, ulNavs, ulLoading>>
    /\ UNCHANGED <<appVars, viewVars, followVars, ulTags, ulFile, ulSubmits>>

\* after the insert on artworks: if (artworkError) throw artworkError; then
\* the tags, if (tags.trim())
ArtworkInsertDone(res) ==
    /\ ulPhase = "insert"
    /\ ulSteps' = answered(ulSteps, res)
    /\ IF res = "error" THEN uploadFailed
       ELSE /\ tagLoop(IF tagTrim(ulTags) = <<>> THEN <<>> ELSE tagNames(ulTags), <<>>)
            /\ UNCHANGED ulLinks
    /\ UNCHANGED <<appVars, viewVars, followVars, ulTags, ulFile, ulSubmits>>

\* after the upsert on tags: continue on tagError, else the insert on
\* artwork_tags.  A failed query resolves with { error }.
TagUpsertDone(res) ==
    /\ ulPhase = "upsert"
    /\ IF afterUpsert(res) = "continue"
       THEN /\ tagLoop(Tail(ulTodo), answered(ulUpserts, res))
            /\ UNCHANGED ulLinks
       ELSE /\ ulUpserts' = answered(ulUpserts, res)
            /\ ulLinks' = Append(ulLinks, [name |-> ulUpserts[Len(ulUpserts)].name,
                                            res |-> "pending"])
            /\ ulPhase' = "link"
            /\ UNCHANGED <<ulTodo, ulToasts, ulNavs, ulLoading>>
    /\ UNCHANGED <<appVars, viewVars, followVars, ulTags, ulFile, ulSubmits, ulSteps>>

\* after the insert on artwork_tags, whose result is not looked at: the next
\* tag name
LinkInsertDone(res) ==
    /\ ulPhase = "link"
    /\ ulLinks' = answered(ulLinks, res)
    /\ tagLoop(Tail(ulTodo), ulUpserts)
    /\ UNCHANGED <<appVars, viewVars, followVars, ulTags, ulFile, ulSubmits, ulSteps>>

\* Upload is not mounted.
UploadIdle ==
    /\ ulTags = <<>>
    /\ ulFile = FALSE
    /\ ulPhase = "done"
    /\ ulTodo = <<>>
    /\ ulUpserts = <<>>
    /\ ulLinks = <<>>
    /\ ulSubmits = 0
    /\ ulToasts = [t \in UploadToasts |-> 0]
    /\ ulNavs = 0
    /\ ulLoading = FALSE
    /\ ulSteps = <<>>

------------------------------------------------------------------------------
(* ArtworkDetail and UserProfile: the follow button *)

FollowPages == {"ArtworkDetail", "UserProfile"}

\* The texts of the toasts of toggleFollow.
FollowToasts ==
    {"Sign in required", "Unfollowed artist", "Following artist",
     "Failed to update follow status"}

\* The effect that calls checkIfFollowing: in ArtworkDetail on
\* [currentUserId, artwork], if (currentUserId && artwork); in UserProfile on
\* [currentUserId, id], if (currentUserId && id && currentUserId !== id), the
\* profile shown being another user's.
followEffect(user, artwork) ==
    tfCheckReqs' = IF user # None /\ (tfPage = "UserProfile" \/ artwork)
                   THEN tfCheckReqs \cup {[user |-> user]}
                   ELSE tfCheckReqs

\* fetchCurrentUser after the await: setCurrentUserId(user?.id || null), and
\* the effect that depends on currentUserId.
TfUserDone ==
    /\ tfUserReq
    /\ tfUserReq' = FALSE
    /\ tfCurrentUserId' = session
    /\ IF session # None THEN followEffect(session, tfArtwork) ELSE UNCHANGED tfCheckReqs
    /\ UNCHANGED <<appVars, viewVars, uploadVars, follows, tfPage, tfArtwork, tfIsFollowing,
                   tfArtworkReq, tfToggleReqs, tfToggles, tfToasts>>

\* fetchArtwork of ArtworkDetail after its awaits: setArtwork(data), and the
\* effect that depends on artwork; nothing is set when the query failed.
TfArtworkDone(res) ==
    /\ tfArtworkReq
    /\ tfArtworkReq' = FALSE
    /\ tfArtwork' = (res = "ok")
    /\ IF res = "ok" THEN followEffect(tfCurrentUserId, TRUE) ELSE UNCHANGED tfCheckReqs
    /\ UNCHANGED <<appVars, viewVars, uploadVars, follows, tfPage, tfCurrentUserId,
                   tfIsFollowing, tfUserReq, tfToggleReqs, tfToggles, tfToasts>>

\* checkIfFollowing after the await: setIsFollowing(!!data); data is null when
\* there is no row and when the query returned an error.
CheckIfFollowingDone(r, res) ==
    /\ r \in tfCheckReqs
    /\ tfCheckReqs' = tfCheckReqs \ {r}
    /\ tfIsFollowing' = (res = "ok" /\ r.user \in follows)
    /\ UNCHANGED <<appVars, viewVars, uploadVars, follows, tfPage, tfCurrentUserId, tfArtwork,
                   tfUserReq, tfArtworkReq, tfToggleReqs, tfToggles, tfToasts>>

\* toggleFollow up to its await: the sign-in check, in ArtworkDetail
\* if (!artwork) return, then the delete or the insert is sent.  isFollowing
\* is that of the render the click happened in.
toggleFollow ==
    /\ tfToggles < MaxToggles
    /\ tfToggles' = tfToggles + 1
    /\ IF tfCurrentUserId = None
       THEN /\ tfToasts' = toast(tfToasts, "Sign in required")
            /\ UNCHANGED tfToggleReqs
       ELSE IF tfPage = "ArtworkDetail" /\ ~tfArtwork
       THEN UNCHANGED <<tfToasts, tfToggleReqs>>
       ELSE /\ tfToggleReqs' = tfToggleReqs \cup
                    {[n |-> tfToggles', user |-> tfCurrentUserId,
                      isFollowing |-> tfIsFollowing, result |-> "pending"]}
            /\ UNCHANGED tfToasts
    /\ UNCHANGED <<appVars, viewVars, uploadVars, follows, tfPage, tfCurrentUserId, tfArtwork,
                   tfIsFollowing, tfUserReq, tfArtworkReq, tfCheckReqs>>

\* The delete or insert on follows of call r is answered: "ok" when it was
\* carried out, "error" when the promise resolves with { error } (how
\* supabase-js reports a failed query), "throw" when the promise rejects.
FollowsWrite(r, res) ==
    /\ r \in tfToggleReqs
    /\ r.result = "pending"
    /\ follows' = IF res # "ok" THEN follows
                  ELSE IF r.isFollowing THEN follows \ {r.user}
                  ELSE follows \cup {r.user}
    /\ tfToggleReqs' = (tfToggleReqs \ {r}) \cup {[r EXCEPT !.result = res]}
    /\ UNCHANGED <<appVars, viewVars, uploadVars, tfPage, tfCurrentUserId, tfArtwork,
                   tfIsFollowing, tfUserReq, tfArtworkReq, tfCheckReqs, tfToggles, tfToasts>>

\* toggleFollow after its await: the result of the await is not looked at, so
\* only a rejected promise reaches the catch block.
toggleFollowResume(r) ==
    /\ r \in tfToggleReqs
    /\ r.result # "pending"
    /\ tfToggleReqs' = tfToggleReqs \ {r}
    /\ IF r.result = "throw"
       THEN /\ tfToasts' = toast(tfToasts, "Failed to update follow status")
            /\ UNCHANGED tfIsFollowing
       ELSE IF r.isFollowing
       THEN /\ tfIsFollowing' = FALSE
            /\ tfToasts' = toast(tfToasts, "Unfollowed artist")
       ELSE /\ tfIsFollowing' = TRUE
            /\ tfToasts' = toast(tfToasts, "Following artist")
    /\ UNCHANGED <<appVars, viewVars, uploadVars, follows, tfPage, tfCurrentUserId, tfArtwork,
                   tfUserReq, tfArtworkReq, tfCheckReqs, tfToggles>>

\* No page with a follow button is mounted.
FollowIdle ==
    /\ follows = {}
    /\ tfPage = "UserProfile"
    /\ tfCurrentUserId = None
    /\ tfArtwork = FALSE
    /\ tfIsFollowing = FALSE
    /\ tfUserReq = FALSE
    /\ tfArtworkReq = FALSE
    /\ tfCheckReqs = {}
    /\ tfToggleReqs = {}
    /\ tfToggles = 0
    /\ tfToasts = [t \in FollowToasts |-> 0]

------------------------------------------------------------------------------
(* Home and Browse: the artwork list *)

\* Most rows of artworks.
MaxFeed == 2

\* .limit(20) of Home
FeedLimit == 20

\* .limit(50) of Browse
BrowseLimit == 50

\* mature_content BOOLEAN DEFAULT false, show_mature_content BOOLEAN DEFAULT
\* FALSE: both columns are nullable
NullableBoolean == {"true", "false", "null"}

FeedPages == {"Home", "Browse"}

\* .or("mature_content.is.null,mature_content.eq.false")
notMature(row) == row.mature_content = "null" \/ row.mature_content = "false"

\* .limit(n)
limit(rows, n) == SubSeq(rows, 1, IF Len(rows) < n THEN Len(rows) ELSE n)

\* the artwork query without the filter on mature_content
feedQueryWithoutFilter(rows, filter, n) == limit(rows, n)

\* The artwork query: select("*"), order("created_at", descending), limit(n),
\* and the filter on mature_content when showMatureContent is false.  The
\* table is kept newest first.
feedQuery(rows, filter, n) ==
    limit(IF filter THEN SelectSeq(rows, notMature) ELSE rows, n)

\* from("profiles").select("username, avatar_url").eq("id", user_id): the
\* rows found, of which only username is kept
selectProfile(user_id) == {[username |-> p.username] : p \in {q \in profiles : q.id = user_id}}

\* profile || { username: "Unknown", avatar_url: null }, for the data of
\* .single(): the row when there is exactly one, null otherwise
profileOrUnknown(rows) ==
    IF Cardinality(rows) = 1 THEN CHOOSE p \in rows : TRUE ELSE [username |-> "Unknown"]

\* a call of fetchFeedArtworks / fetchArtworks at the await of its query
feedRequest(n, filter, lim) ==
    [n |-> n, filter |-> filter, lim |-> lim, phase |-> "query", data |-> <<>>,
     results |-> <<>>, pending |-> {}]

\* the profile fetches answered in the order they arrive, not by artwork
resolvedInArrivalOrder(r, k, rows) ==
    [r EXCEPT !.results[Len(r.data) - Cardinality(r.pending) + 1] = rows,
              !.pending = @ \ {k}]

\* The callback of map for the artwork at index k resumes with the rows of its
\* profile fetch; Promise.all keeps its value at index k.
resolved(r, k, rows) == [r EXCEPT !.results[k] = rows, !.pending = @ \ {k}]

\* { ...artwork, profiles: profile || {...} } for every artwork of the answer
artworksWithProfiles(r) ==
    [k \in 1..Len(r.data) |->
        [id |-> r.data[k].id, user_id |-> r.data[k].user_id,
         mature_content |-> r.data[k].mature_content,
         profiles |-> profileOrUnknown(r.results[k])]]

\* fetchUserPreference after getUser: without a user setShowMatureContent(false),
\* which changes nothing, and return; with one, the profile is fetched.
HmUserDone ==
    /\ hmPrefReq = "getUser"
    /\ hmPrefReq' = IF session = None THEN "done" ELSE "profile"
    /\ UNCHANGED <<besideFeed, artworks, profiles, hmPage, hmArtworks, hmLoading,
                   hmShowMatureContent, hmFeedReqs, hmIssued, hmFailed>>

\* fetchUserPreference after the profile fetch: if (profile)
\* setShowMatureContent(profile.show_mature_content || false).  When the value
\* changes Home renders and the effect on [showMatureContent] calls
\* fetchFeedArtworks, which closes over the new value.
HmPreferenceDone(res) ==
    /\ hmPrefReq = "profile"
    /\ hmPrefReq' = "done"
    /\ LET rows == IF res = "ok" THEN {p \in profiles : p.id = session} ELSE {}
           show == \E p \in rows : p.show_mature_content = "true"
       IN  IF Cardinality(rows) = 1 /\ show # hmShowMatureContent
           THEN /\ hmShowMatureContent' = show
                /\ hmIssued' = hmIssued + 1
                /\ hmFeedReqs' = hmFeedReqs \cup {feedRequest(hmIssued', ~show, FeedLimit)}
           ELSE UNCHANGED <<hmShowMatureContent, hmIssued, hmFeedReqs>>
    /\ UNCHANGED <<besideFeed, artworks, profiles, hmPage, hmArtworks, hmLoading, hmFailed>>

\* The artwork query of call r is answered.  With an error: throw, catch, and
\* finally setLoading(false).  Without: one profile fetch per artwork is
\* started; with no artworks Promise.all resolves at once, then
\* setArtworks([]) and setLoading(false).
FeedQueryDone(r, res) ==
    /\ r \in hmFeedReqs
    /\ r.phase = "query"
    /\ LET data == feedQuery(artworks, r.filter, r.lim)
       IN  IF res = "error"
           THEN /\ hmFeedReqs' = hmFeedReqs \ {r}
                /\ hmLoading' = FALSE
                /\ hmFailed' = TRUE
                /\ UNCHANGED hmArtworks
           ELSE IF data = <<>>
           THEN /\ hmFeedReqs' = hmFeedReqs \ {r}
                /\ hmArtworks' = <<>>
                /\ hmLoading' = FALSE
                /\ UNCHANGED hmFailed
           ELSE /\ hmFeedReqs' = (hmFeedReqs \ {r}) \cup
                        {[r EXCEPT !.phase = "profiles", !.data = data,
                                   !.results = [k \in 1..Len(data) |-> {}],
                                   !.pending = 1..Len(data)]}
                /\ UNCHANGED <<hmArtworks, hmLoading, hmFailed>>
    /\ UNCHANGED <<besideFeed, artworks, profiles, hmPage, hmShowMatureContent, hmPrefReq,
                   hmIssued>>

\* The profile fetch for the artwork at index k of call r is answered: with
\* the row ("ok"), or with nothing when there is no row or the fetch failed.
\* After the last one Promise.all resolves: setArtworks(artworksWithProfiles)
\* and setLoading(false).
FeedProfileDone(r, k, res) ==
    /\ r \in hmFeedReqs
    /\ r.phase = "profiles"
    /\ k \in r.pending
    /\ LET rows == IF res = "ok" THEN selectProfile(r.data[k].user_id) ELSE {}
           after == resolved(r, k, rows)
       IN  IF after.pending = {}
           THEN /\ hmFeedReqs' = hmFeedReqs \ {r}
                /\ hmArtworks' = artworksWithProfiles(after)
                /\ hmLoading' = FALSE
           ELSE /\ hmFeedReqs' = (hmFeedReqs \ {r}) \cup {after}
                /\ UNCHANGED <<hmArtworks, hmLoading>>
    /\ UNCHANGED <<besideFeed, artworks, profiles, hmPage, hmShowMatureContent, hmPrefReq,
                   hmIssued, hmFailed>>

\* Neither Home nor Browse is mounted.
FeedIdle ==
    /\ artworks = <<>>
    /\ profiles = {}
    /\ hmPage = "Home"
    /\ hmArtworks = <<>>
    /\ hmLoading = TRUE
    /\ hmShowMatureContent = FALSE
    /\ hmPrefReq = "done"
    /\ hmFeedReqs = {}
    /\ hmIssued = 0
    /\ hmFailed = FALSE

MoreIdle == ViewIdle /\ UploadIdle /\ FollowIdle /\ FeedIdle

PagesIdle == FavoriteIdle /\ CommentIdle /\ MoreIdle

GateIdle ==
    /\ anonymous = (session = None)
    /\ route = "/"
    /\ scUserId = None
    /\ scHook = useStateInit
    /\ scRendered = ScSnapshot(None, useStateInit)
    /\ scListeners = NoListeners
    /\ scUserReqs = 0
    /\ scRoleReqs = {}
    /\ scNavs = 0
    /\ alMounted = FALSE
    /\ alUser = None
    /\ alLoading = TRUE
    /\ alSessionReqs = {}
    /\ alMounts = 0
    /\ authEvents = 0
    /\ navAuth = 0
    /\ dcMounted = FALSE
    /\ dcUserId = None
    /\ dcUserLoading = TRUE
    /\ dcHook = useStateInit
    /\ dcStats = "zero"
    /\ dcRendered = DcSnapshot(None, TRUE, useStateInit)
    /\ dcUserReqs = {}
    /\ dcRoleReqs = {}
    /\ dcStatsReqs = {}
    /\ dcRolesFor = NoRoles
    /\ dcToasts = 0
    /\ dcNavs = 0

ResolverIdle == UpUnmounted /\ upReqs = {}

Init ==
    /\ autoBatching \in BOOLEAN
    /\ user_roles \in RoleTables
    /\ session \in Ids \cup {None}
    /\ GateIdle
    /\ ResolverIdle
    /\ PagesIdle

Next ==
    \/ \E r \in Protected : UserOpens(r)
    \/ \E r \in Public : UserLeaves(r)
    \/ \E req \in alSessionReqs : AlSessionDone(req)
    \/ \E s \in Ids \cup {None} : AuthStateChange(s)
    \/ \E req \in dcUserReqs : DcUserDone(req)
    \/ DcRender
    \/ \E req \in dcRoleReqs : DcRoleDone(req, "ok")
    \/ \E req \in dcRoleReqs : DcRoleDone(req, "error")
    \/ \E req \in dcStatsReqs : DcStatsDone(req)

\* The protected routes with DevConsole; the requests of useDevConsoleShortcut
\* stay unanswered, so its listener never navigates.
Spec == Init /\ [][Next]_vars

\* hasAccess reads only whether a role set holds developer or admin: the second
\* identity holds either no role or admin.
InitShortcut ==
    /\ autoBatching \in BOOLEAN
    /\ user_roles \in {RowsOf(f) : f \in {g \in [Ids -> RoleSets] : g["u2"] \in {{}, {"admin"}}}}
    /\ session \in Ids \cup {None}
    /\ GateIdle
    /\ ResolverIdle
    /\ PagesIdle

NextShortcut ==
    \/ \E r \in Protected : UserOpens(r)
    \/ \E r \in Public : UserLeaves(r)
    \/ \E req \in alSessionReqs : AlSessionDone(req)
    \/ \E s \in Ids \cup {None} : AuthStateChange(s)
    \/ ScUserDone
    \/ ScRender
    \/ \E req \in scRoleReqs : ScRoleDone(req, "ok")
    \/ \E req \in scRoleReqs : ScRoleDone(req, "error")
    \/ handleKeyDown

\* The protected routes with the keyboard shortcut; the requests of a
\* DevConsole that mounts stay unanswered.
SpecShortcut == InitShortcut /\ [][NextShortcut]_vars

\* Two browsers and the artworks, each with some views already counted.
InitViews ==
    /\ autoBatching = TRUE
    /\ user_roles = {}
    /\ session = None
    /\ GateIdle
    /\ ResolverIdle
    /\ FavoriteIdle
    /\ CommentIdle
    /\ UploadIdle
    /\ FollowIdle
    /\ FeedIdle
    /\ view_count \in [Artworks -> 0..1]
    /\ vwInitial = view_count
    /\ vwId = [c \in Clients |-> None]
    /\ vwCalls = [a \in Artworks |-> 0]
    /\ vwViews = [a \in Artworks |-> 0]

NextViews ==
    \/ \E c \in Clients, id \in Artworks : AdMount(c, id)
    \/ \E c \in Clients, id \in Artworks : AdSetId(c, id)
    \/ \E c \in Clients : AdUnmount(c)
    \/ \E a \in Artworks : IncrementViewCountRuns(a)

\* Browsers that view artworks, and the database that counts the views.
SpecViews == InitViews /\ [][NextViews]_vars

\* The Upload form is shown, with some text in the tags input and a file
\* selected or not.
InitUpload ==
    /\ autoBatching = TRUE
    /\ user_roles = {}
    /\ session \in {"u1", None}
    /\ GateIdle
    /\ ResolverIdle
    /\ FavoriteIdle
    /\ CommentIdle
    /\ ViewIdle
    /\ FollowIdle
    /\ FeedIdle
    /\ ulTags \in TagInputs
    /\ ulFile \in BOOLEAN
    /\ ulPhase = "form"
    /\ ulTodo = <<>>
    /\ ulUpserts = <<>>
    /\ ulLinks = <<>>
    /\ ulSubmits = 0
    /\ ulToasts = [t \in UploadToasts |-> 0]
    /\ ulNavs = 0
    /\ ulLoading = FALSE
    /\ ulSteps = <<>>

NextUpload ==
    \/ handleSubmit
    \/ UlUserDone
    \/ \E res \in {"ok", "error"} : StorageUploadDone(res)
    \/ \E res \in {"ok", "error"} : ArtworkInsertDone(res)
    \/ \E res \in {"ok", "error"} : TagUpsertDone(res)
    \/ \E res \in {"ok", "error"} : LinkInsertDone(res)

\* The Upload page.
SpecUpload == InitUpload /\ [][NextUpload]_vars

\* ArtworkDetail or UserProfile has mounted for an artist: its effects have
\* called getUser and, in ArtworkDetail, fetchArtwork.
InitFollow ==
    /\ autoBatching = TRUE
    /\ user_roles = {}
    /\ session \in Ids \cup {None}
    /\ GateIdle
    /\ ResolverIdle
    /\ FavoriteIdle
    /\ CommentIdle
    /\ ViewIdle
    /\ UploadIdle
    /\ FeedIdle
    /\ follows \in SUBSET Ids
    /\ tfPage \in FollowPages
    /\ tfCurrentUserId = None
    /\ tfArtwork = FALSE
    /\ tfIsFollowing = FALSE
    /\ tfUserReq = TRUE
    /\ tfArtworkReq = (tfPage = "ArtworkDetail")
    /\ tfCheckReqs = {}
    /\ tfToggleReqs = {}
    /\ tfToggles = 0
    /\ tfToasts = [t \in FollowToasts |-> 0]

NextFollow ==
    \/ TfUserDone
    \/ TfArtworkDone("ok")
    \/ TfArtworkDone("error")
    \/ \E r \in tfCheckReqs : CheckIfFollowingDone(r, "ok")
    \/ \E r \in tfCheckReqs : CheckIfFollowingDone(r, "error")
    \/ toggleFollow
    \/ \E r \in tfToggleReqs : FollowsWrite(r, "ok")
    \/ \E r \in tfToggleReqs : FollowsWrite(r, "error")
    \/ \E r \in tfToggleReqs : FollowsWrite(r, "throw")
    \/ \E r \in tfToggleReqs : toggleFollowResume(r)

\* A page with the follow button.
SpecFollow == InitFollow /\ [][NextFollow]_vars

InitResolver ==
    /\ autoBatching \in BOOLEAN
    /\ user_roles \in RoleTables
    /\ UpUnmounted
    /\ upReqs = {}
    /\ session = None
    /\ GateIdle
    /\ PagesIdle

NextResolver ==
    \/ \E i \in Ids : UpMount(i)
    \/ \E i \in Ids : UpSetId(i)
    \/ UpRender
    \/ \E r \in upReqs : UpFetchDone(r, "ok")
    \/ \E r \in upReqs : UpFetchDone(r, "error")
    \/ UpUnmount

SpecResolver == InitResolver /\ [][NextResolver]_vars

\* ArtworkDetail has mounted for an artwork: its effects have called getUser
\* and fetchArtwork.
InitFavorite ==
    /\ autoBatching = TRUE
    /\ user_roles = {}
    /\ session \in Ids \cup {None}
    /\ GateIdle
    /\ ResolverIdle
    /\ CommentIdle
    /\ MoreIdle
    /\ favorites \in SUBSET Ids
    /\ adFailed = FALSE
    /\ adCurrentUserId = None
    /\ adIsFavorited = FALSE
    /\ adFavoriteCount = 0
    /\ adUserReq = TRUE
    /\ adArtworkReq = TRUE
    /\ adCheckReqs = {}
    /\ adToggleReqs = {}
    /\ adToggles = 0
    /\ adToasts = [t \in FavoriteToasts |-> 0]

NextFavorite ==
    \/ AdUserDone
    \/ \E r \in adCheckReqs : CheckIfFavoritedDone(r, "ok")
    \/ \E r \in adCheckReqs : CheckIfFavoritedDone(r, "error")
    \/ FetchArtworkDone("ok")
    \/ FetchArtworkDone("error")
    \/ toggleFavorite
    \/ \E r \in adToggleReqs : FavoritesWrite(r, "ok")
    \/ \E r \in adToggleReqs : FavoritesWrite(r, "error")
    \/ \E r \in adToggleReqs : FavoritesWrite(r, "throw")
    \/ \E r \in adToggleReqs : toggleFavoriteResume(r)

SpecFavorite == InitFavorite /\ [][NextFavorite]_vars

\* The comments the artwork has when CommentSection mounts: one, by another user.
SeedComments == <<[user_id |-> "u2", content |-> [lead |-> 0, core |-> 1, trail |-> 0]]>>

\* CommentSection has mounted for an artwork: its effects have called getUser
\* and fetchComments.
InitComment ==
    /\ autoBatching = TRUE
    /\ user_roles = {}
    /\ session \in {"u1", None}
    /\ GateIdle
    /\ ResolverIdle
    /\ FavoriteIdle
    /\ MoreIdle
    /\ comments = SeedComments
    /\ csCurrentUserId = None
    /\ csComments = <<>>
    /\ csNewComment = EmptyContent
    /\ csIsSubmitting = FALSE
    /\ csUserReq = TRUE
    /\ csFetchReqs = 1
    /\ csInsertReqs = {}
    /\ csSubmits = 0
    /\ csToasts = [t \in CommentToasts |-> 0]

NextComment ==
    \/ CsUserDone
    \/ FetchCommentsDone("ok")
    \/ FetchCommentsDone("error")
    \/ \E c \in Contents : onChange(c)
    \/ handleSubmitComment(TRUE)
    \/ handleSubmitComment(FALSE)
    \/ \E r \in csInsertReqs : CommentsInsert(r, "ok")
    \/ \E r \in csInsertReqs : CommentsInsert(r, "error")
    \/ \E r \in csInsertReqs : CommentsInsert(r, "throw")
    \/ \E r \in csInsertReqs : handleSubmitCommentResume(r)

SpecComment == InitComment /\ [][NextComment]_vars

------------------------------------------------------------------------------
(* Role Resolver: claims checked under SpecResolver *)

\* storedRoles(I): the roles the rows of user_roles give identity i
storedRoles(i) == {r \in Roles : [user_id |-> i, role |-> r] \in user_roles}

\* The effect of useUserRole has run for the current id: the lookup issued last
\* is the lookup of the current identity.
UpCurrent == upMounted /\ upId # None /\ upRendered.userId = upId

\* C1: when the identity changes from A to B while A's lookup is in flight, A's
\* response, whenever it arrives, leaves the resolver's state for B alone: while
\* B's lookup is pending the resolver is loading, and once B's lookup has
\* returned its rows the roles are the roles stored for B.
C1_StaleResponseLeavesNewIdentityAlone ==
    UpCurrent =>
        /\ upLatest = "pending" => finalLoading(upHook)
        /\ upLatest = "ok" => upHook.roles = storedRoles(upId)

\* C6: once the resolver has finished resolving for I without error, what it
\* returns is exactly the stored role set of I, with hasRole and the three
\* predicates its membership tests, and loading = false.
C6_ResolvedRolesAreStoredRoles ==
    (UpCurrent /\ upLatest = "ok") =>
        /\ useUserRole(upHook) =
               [roles |-> storedRoles(upId),
                isAdmin |-> "admin" \in storedRoles(upId),
                isDeveloper |-> "developer" \in storedRoles(upId),
                isModerator |-> "moderator" \in storedRoles(upId),
                loading |-> FALSE]
        /\ \A r \in Roles : hasRole(upHook, r) <=> r \in storedRoles(upId)

\* A step in which the response of a lookup for the current identity is
\* applied and is an error.
UpErrorApplied ==
    /\ upMounted
    /\ upApplied' # upApplied
    /\ upApplied'.res = "error"
    /\ upApplied'.id = upId

\* C7: when the lookup for the current identity returns an error the resolver
\* ends with roles = {} and loading = false, all three predicates false.
C7_FailClosed ==
    [][UpErrorApplied =>
          useUserRole(upHook') =
              [roles |-> {}, isAdmin |-> FALSE, isDeveloper |-> FALSE,
               isModerator |-> FALSE, loading |-> FALSE]]_vars

\* An error was applied for the current identity, which holds roles in the table.
C7_Witness ==
    /\ UpCurrent
    /\ upApplied.res = "error"
    /\ upApplied.id = upId
    /\ storedRoles(upId) # {}
    /\ upHook.roles = {}
    /\ ~finalLoading(upHook)


------------------------------------------------------------------------------
(* Claims about the gates, under Spec *)

Privileged == {"developer", "admin"}

\* This step is a denial of DevConsole: the "Access Denied" toast.
DcDenies == dcToasts' = dcToasts + 1

\* C2: DevConsole emits no denial until the identity fetch has completed and
\* the role lookup issued for that identity has completed: when a denial is
\* emitted, userLoading is false, an identity is present, and the roles the
\* hook then holds came from the response of the lookup for that identity.
C2_NoDenialBeforeRolesResolved ==
    [][DcDenies => /\ ~dcUserLoading
                   /\ dcUserId # None
                   /\ dcRolesFor'.id = dcUserId]_vars

\* C3: for an identity whose stored roles contain developer or admin,
\* DevConsole never emits the denial, unless the role lookup for that
\* identity returned an error.
C3_PrivilegedNeverDenied ==
    [][DcDenies => \/ storedRoles(dcUserId) \cap Privileged = {}
                   \/ dcRolesFor' = [id |-> dcUserId, res |-> "error"]]_vars

\* DevConsole has nothing left to do: no render pending, no fetch of its own
\* mount in flight.
DcSettled ==
    /\ dcMounted
    /\ ~DcDirty
    /\ \A r \in dcUserReqs \cup dcRoleReqs : ~Live(r)

\* C4: for an identity whose stored roles contain neither developer nor admin,
\* a mount of DevConsole ends in the denial, emitted exactly once: never two
\* toasts, one navigate("/") per toast, and no settled DevConsole that is still
\* mounted for such an identity.
C4_UnprivilegedDeniedOnce ==
    /\ dcToasts <= 1
    /\ dcNavs = dcToasts
    /\ ~(DcSettled /\ dcUserId # None /\ storedRoles(dcUserId) \cap Privileged = {})

\* An unprivileged identity, signed in throughout, was denied and sent to "/".
C4_Witness ==
    /\ dcToasts = 1
    /\ dcNavs = 1
    /\ route = "/"
    /\ ~dcMounted
    /\ authEvents = 0
    /\ session # None
    /\ storedRoles(session) \cap Privileged = {}

\* This step is the completion of the getSession call of the mounted
\* AuthenticatedLayout.
AlResolves ==
    /\ alMounted
    /\ [mount |-> alMounts] \in alSessionReqs
    /\ [mount |-> alMounts] \notin alSessionReqs'

\* C5: with no authenticated identity, AuthenticatedLayout is never Granted:
\* it renders nothing while getSession is pending, and when getSession
\* resolves without a user it navigates to /auth.
C5_AnonymousNeverGranted ==
    [][/\ session' = None => ~Granted'
       /\ alMounted' /\ [mount |-> alMounts'] \in alSessionReqs' => ~Granted'
       /\ AlResolves /\ session = None =>
              /\ route' = "/auth"
              /\ navAuth' = navAuth + 1
              /\ ~alMounted']_vars

\* An anonymous visitor opened a protected route and was sent to /auth.
C5_Witness ==
    /\ session = None
    /\ authEvents = 0
    /\ alMounts = 1
    /\ alSessionReqs = {}
    /\ route = "/auth"
    /\ navAuth = 1
    /\ ~alMounted

\* This step completes a request whose component has been unmounted.
StaleCompletes ==
    \/ \E r \in alSessionReqs \ alSessionReqs' : ~Live(r)
    \/ \E r \in dcUserReqs \ dcUserReqs' : ~Live(r)
    \/ \E r \in dcRoleReqs \ dcRoleReqs' : ~Live(r)

\* C10: the completion of a request of an unmounted component updates no
\* component state, navigates nowhere and shows no toast.
C10_NothingAfterUnmount ==
    [][StaleCompletes =>
          UNCHANGED <<route, navAuth, alMounted, alUser, alLoading, dcMounted, dcUserId,
                      dcUserLoading, dcHook, dcStats, dcRendered, dcToasts, dcNavs>>]_vars


------------------------------------------------------------------------------
(* Claims about the favorite button, under SpecFavorite *)

\* This step resumes the toggleFavorite call r, whose write has failed.
ResumesFailedToggle(r) ==
    /\ r \in adToggleReqs
    /\ r \notin adToggleReqs'
    /\ r.result \in {"error", "throw"}

\* C8: when the insert or delete on favorites fails, the continuation of
\* toggleFavorite leaves isFavorited and favoriteCount as they are and shows
\* one "Failed to update favorites" toast and no other toast.
C8_FailedToggleChangesNothing ==
    [][\A r \in adToggleReqs :
          ResumesFailedToggle(r) =>
              /\ adIsFavorited' = adIsFavorited
              /\ adFavoriteCount' = adFavoriteCount
              /\ adToasts' = toast(adToasts, "Failed to update favorites")]_vars

------------------------------------------------------------------------------
(* Claims about posting a comment, under SpecComment *)

\* This step is a call of handleSubmitComment by a signed-in user with a text
\* that is empty after trimming, or longer than 1000 characters after trimming.
SubmitsInvalidComment ==
    /\ csSubmits' = csSubmits + 1
    /\ csCurrentUserId # None
    /\ csNewComment.core = 0 \/ csNewComment.core > MaxCommentLength

\* C9: for a signed-in user a text that is empty after trimming, or longer
\* than 1000 characters, fails validation in the client: no insert on comments
\* is sent, one "Invalid comment" toast and no other is shown, and the comment
\* list and the input text stay as they are.
C9_InvalidCommentIsNotSent ==
    [][SubmitsInvalidComment =>
          /\ csInsertReqs' = csInsertReqs
          /\ comments' = comments
          /\ csToasts' = toast(csToasts, "Invalid comment")
          /\ csComments' = csComments
          /\ csNewComment' = csNewComment]_vars

\* A signed-in user submitted white space only, and nothing but the toast
\* came of it.
C9_Witness ==
    /\ csCurrentUserId # None
    /\ csSubmits = 1
    /\ csNewComment.core = 0
    /\ length(csNewComment) > 0
    /\ csToasts["Invalid comment"] = 1
    /\ csInsertReqs = {}
    /\ comments = SeedComments

------------------------------------------------------------------------------
(* Claims about the keyboard shortcut, under SpecShortcut *)

\* This step is a Ctrl/Cmd+Alt+D key press that navigates to /dev-console.
ShortcutNavigates == scNavs' = scNavs + 1

\* C11: a Ctrl/Cmd+Alt+D key press navigates to /dev-console only when the
\* user who is signed in at the key press holds developer or admin; a user who
\* holds neither is never navigated.
C11_ShortcutNavigatesOnlyForPrivilegedUser ==
    [][ShortcutNavigates =>
          /\ session # None
          /\ storedRoles(session) \cap Privileged # {}]_vars

\* C14: while a protected view is mounted, an access decision is computed from
\* the roles fetched for the identity of the session: the hasAccess the
\* shortcut's listener reads, and the console body DevConsole shows, belong to
\* the identity that is signed in.
C14_AccessDecisionIsForSessionIdentity ==
    /\ (alMounted /\ scRendered.hasAccess) => scRendered.currentUserId = session
    /\ (dcMounted /\ DcView(dcRendered) = "console") => dcRendered.currentUserId = session

------------------------------------------------------------------------------
(* Claims about the states of the role resolver *)

\* C15: in every render in which the identity given to useUserRole is absent,
\* the first render included, the hook returns roles = {} and loading = false.
C15_AbsentIdentityIsIdle ==
    (dcMounted /\ dcRendered.currentUserId = None) =>
        /\ dcRendered.ret.roles = {}
        /\ ~dcRendered.ret.loading

\* C16: in every render of the caller in which the identity is present and the
\* lookup issued for it has not completed, the hook returns loading = true,
\* the first render with a new identity included.
C16_PendingLookupIsLoading ==
    (upMounted /\ upRendered.userId # None /\ upLatest = "pending") =>
        upRendered.ret.loading

\* C17: with the stored rows unchanged, every lookup of an identity that
\* returns its rows leaves the resolver with the same role set as the first
\* one did, the stored roles of that identity, whatever the resolver held
\* before: the snapshot is replaced, never added to.
C17_FetchReplacesSnapshot ==
    \A i \in Ids : \A k \in 1..Len(upOkRoles[i]) :
        /\ upOkRoles[i][k] = upOkRoles[i][1]
        /\ upOkRoles[i][k] = storedRoles(i)

\* One instance looked up i, then another identity with other roles, then i
\* again, and all three lookups returned their rows.
C17_Witness ==
    \E i \in Ids : \E j \in Ids \ {i} :
        /\ upMounted
        /\ Len(upOkRoles[i]) = 2
        /\ Len(upOkRoles[j]) = 1
        /\ storedRoles(i) # {}
        /\ ~(storedRoles(j) \subseteq storedRoles(i))
        /\ upApplied = [id |-> i, n |-> 3, res |-> "ok"]

------------------------------------------------------------------------------
(* Claims about what the gates render, under Spec *)

\* DevConsole has resolved its identity and the roles of that identity, and
\* they hold developer or admin: getUser has answered with a user, the lookup
\* for that user has returned its rows, and the hook holds them.
DcResolvedPrivileged ==
    /\ ~dcUserLoading
    /\ dcUserId # None
    /\ dcRolesFor = [id |-> dcUserId, res |-> "ok"]
    /\ dcHook.roles = storedRoles(dcUserId)
    /\ dcHook.roles \cap Privileged # {}

\* C19: the children of AuthenticatedLayout are mounted only while its session
\* resolution has completed with an identity; DevConsole shows the console
\* body only in a render that has the identity and the roles resolved, not
\* loading, with developer or admin among them; and a step that issues the
\* stats queries ends with identity and roles resolved and privileged.
C19_RendersOnlyWhenGranted ==
    [][/\ dcMounted' => (Granted' /\ alUser' = session')
       /\ (dcMounted' /\ DcView(dcRendered') = "console") =>
              /\ DcResolvedPrivileged'
              /\ dcRendered'.currentUserId = dcUserId'
              /\ ~dcRendered'.userLoading
              /\ ~dcRendered'.ret.loading
              /\ dcRendered'.ret.roles = dcHook'.roles
       /\ dcStatsReqs' \ dcStatsReqs # {} => (dcMounted' /\ DcResolvedPrivileged')]_vars

\* DevConsole shows the console body to a privileged user and the stats it
\* asked for have arrived.
C19_Witness ==
    /\ Granted
    /\ dcMounted
    /\ DcView(dcRendered) = "console"
    /\ dcStats = "loaded"
    /\ dcStatsReqs = {}

\* C20: for one mount of AuthenticatedLayout with no identity, navigate("/auth")
\* is called at most once, in whatever order the getSession answer, the
\* auth-state-change notification and the unmount come.
C20_SignInRedirectAtMostOnce ==
    (anonymous /\ alMounts = 1) => navAuth <= 1

------------------------------------------------------------------------------
(* Claims about the view counter, under SpecViews *)

------------------------------------------------------------------------------
(* Claims about the tags of an upload, under SpecUpload *)

isOk(request) == request.res = "ok"

\* The tag names of this submission were handled as the text of the input
\* asks: one upsert for each piece between commas that is not blank, in the
\* order of the input, of the piece without the white space around it and in
\* lower case; one link insert for each upsert that succeeded, in that order.
TagsHandled ==
    LET names == tagNames(ulTags)
        oks == SelectSeq(ulUpserts, isOk)
    IN  /\ Len(ulUpserts) = Len(names)
        /\ \A k \in 1..Len(names) :
               /\ ulUpserts[k].name = toLowerCase(names[k])
               /\ ulUpserts[k].res \in {"ok", "error"}
               /\ ulUpserts[k].name # <<>>
               /\ Head(ulUpserts[k].name) # " "
               /\ ulUpserts[k].name[Len(ulUpserts[k].name)] # " "
               /\ \A i \in 1..Len(ulUpserts[k].name) : ulUpserts[k].name[i] \notin {"A", ","}
        /\ Len(ulLinks) = Len(oks)
        /\ \A k \in 1..Len(oks) :
               /\ ulLinks[k].name = oks[k].name
               /\ ulLinks[k].res \in {"ok", "error"}

------------------------------------------------------------------------------
(* Claims about the follow button, under SpecFollow *)

\* This step resumes the toggleFollow call r, whose write has failed.
ResumesFailedFollow(r) ==
    /\ r \in tfToggleReqs
    /\ r \notin tfToggleReqs'
    /\ r.result \in {"error", "throw"}

\* C18: when the insert or delete on follows fails, the continuation of
\* toggleFollow leaves isFollowing as it is and shows one "Failed to update
\* follow status" toast and no other toast.
C18_FailedFollowChangesNothing ==
    [][\A r \in tfToggleReqs :
          ResumesFailedFollow(r) =>
              /\ tfIsFollowing' = tfIsFollowing
              /\ tfToasts' = toast(tfToasts, "Failed to update follow status")]_vars

------------------------------------------------------------------------------
(* Claims about sign-out, under Spec *)

\* This step delivers a notification without a session to an
\* AuthenticatedLayout that is rendering its children.
SignOutWhileGranted ==
    /\ Granted
    /\ authEvents' = authEvents + 1
    /\ session' = None

\* C21: a notification without a session that reaches an AuthenticatedLayout
\* rendering its children clears the cached identity and calls
\* navigate("/auth") once, the children are gone with it, and children are
\* rendered again only by a mount that comes after (this mount, unsubscribed
\* at the navigation, never renders again).
C21_SignOutClearsAndRedirects ==
    [][/\ SignOutWhileGranted =>
              /\ alUser' = None
              /\ navAuth' = navAuth + 1
              /\ route' = "/auth"
              /\ ~Granted'
              /\ ~dcMounted'
       /\ (~Granted /\ Granted') => (session' # None /\ alUser' = session')
       /\ (~alMounted /\ alMounted') => alMounts' = alMounts + 1]_vars

\* A signed-in user was shown a protected page and signed out: one
\* navigate("/auth"), nothing mounted, nothing in flight.
C21_Witness ==
    /\ ~anonymous
    /\ session = None
    /\ authEvents = 1
    /\ alMounts = 1
    /\ alSessionReqs = {}
    /\ ~alMounted
    /\ alUser = None
    /\ route = "/auth"
    /\ navAuth = 1

------------------------------------------------------------------------------
(* Claims about the outcome of posting a comment, under SpecComment *)

\* This step resumes the handleSubmitComment call r after its insert.
ResumesComment(r) ==
    /\ r \in csInsertReqs
    /\ r.result # "pending"
    /\ r \notin csInsertReqs'

\* C24: when the insert on comments failed, the continuation leaves the input
\* text and the comment list as they are and shows one "Failed to post
\* comment" toast (title "Error") and no other; when it succeeded, the input
\* is cleared, the success toast is shown and fetchComments is called; and a
\* handler that ends, after a failed validation, a failed insert or a
\* success, leaves isSubmitting false.
C24_CommentWriteOutcome ==
    [][/\ \A r \in csInsertReqs :
              ResumesComment(r) =>
                  /\ ~csIsSubmitting'
                  /\ comments' = comments
                  /\ csComments' = csComments
                  /\ IF r.result = "ok"
                     THEN /\ csNewComment' = EmptyContent
                          /\ csToasts' = toast(csToasts, "Comment posted successfully")
                          /\ csFetchReqs' = csFetchReqs + 1
                     ELSE /\ csNewComment' = csNewComment
                          /\ csToasts' = toast(csToasts, "Error")
                          /\ csFetchReqs' = csFetchReqs
       /\ SubmitsInvalidComment => ~csIsSubmitting']_vars

\* One insert failed and the next one succeeded: one toast each, the input
\* empty, the list refetched with the new comment, isSubmitting false.
C24_Witness ==
    /\ csSubmits = 2
    /\ csToasts["Error"] = 1
    /\ csToasts["Comment posted successfully"] = 1
    /\ csInsertReqs = {}
    /\ csFetchReqs = 0
    /\ ~csIsSubmitting
    /\ csNewComment = EmptyContent
    /\ Len(comments) = Len(SeedComments) + 1
    /\ csComments = comments

\* ---------------------------------------------------------------------
\* C25  Upload issues its calls in order and stops at the first failure
\* ---------------------------------------------------------------------

StepOrder == <<"getUser", "upload", "insert">>

\* the step in which the pending call of ulSteps is answered with a failure
StepFails ==
    /\ ulSteps # <<>>
    /\ ulSteps[Len(ulSteps)].res = "pending"
    /\ ulSteps' = answered(ulSteps, "error")

\* C25: the calls of a submission are getUser, the storage upload and the
\* artworks insert, each issued only after the one before it succeeded, and
\* the tags are processed only after the insert succeeded; without a file
\* nothing is issued; a failing getUser, upload or insert issues nothing
\* more, raises exactly one "Upload failed" toast and does not navigate; and
\* loading is true exactly while the handler is waiting, so it is false
\* again whenever the handler has finished.
C25_UploadStepsInOrder ==
    [][/\ \A k \in 1..Len(ulSteps') :
              /\ k <= Len(StepOrder)
              /\ ulSteps'[k].call = StepOrder[k]
              /\ k > 1 => ulSteps'[k - 1].res = "ok"
       /\ (ulUpserts' # <<>> \/ ulLinks' # <<>>) =>
              /\ Len(ulSteps') = Len(StepOrder)
              /\ ulSteps'[Len(StepOrder)].res = "ok"
       /\ ~ulFile =>
              /\ ulSteps' = <<>> /\ ulUpserts' = <<>> /\ ulLinks' = <<>>
              /\ ulPhase' = "form" /\ ulNavs' = 0
              /\ ulToasts'["Upload failed"] = 0
       /\ StepFails =>
              /\ ulToasts' = toast(ulToasts, "Upload failed")
              /\ ulNavs' = ulNavs
              /\ ulPhase' = "form"
              /\ ulUpserts' = <<>> /\ ulLinks' = <<>>
       /\ ulToasts'["Upload failed"] # ulToasts["Upload failed"] => StepFails
       /\ ulNavs' # ulNavs =>
              /\ ulNavs' = ulNavs + 1
              /\ ulPhase' = "done"
              /\ ulToasts'["Upload failed"] = ulToasts["Upload failed"]
       /\ ulLoading' <=> ulPhase' \notin {"form", "done"}]_vars

\* the artworks insert of a submission failed after its upload succeeded
C25_Witness ==
    /\ ulFile
    /\ Len(ulSteps) = 3
    /\ ulSteps[2].res = "ok"
    /\ ulSteps[3].res = "error"
    /\ ulPhase = "form"
    /\ ~ulLoading
    /\ ulToasts["Upload failed"] = 1
    /\ ulNavs = 0
    /\ ulUpserts = <<>>

------------------------------------------------------------------------------
(* Claims about the favorite state of ArtworkDetail, under SpecFavorite *)

\* no request of ArtworkDetail is in flight
NoFavoriteRequest ==
    /\ ~adUserReq
    /\ ~adArtworkReq
    /\ adCheckReqs = {}
    /\ adToggleReqs = {}

------------------------------------------------------------------------------
(* Claims about the keydown listener, under SpecShortcut *)

\* C29: while AuthenticatedLayout is mounted its useDevConsoleShortcut has
\* exactly one keydown listener registered, and that listener closes over the
\* hasAccess of the hook's last render; after the unmount no listener of it
\* is registered.
C29_OneListenerOfTheLastRender ==
    /\ alMounted => scListeners = addEventListener(NoListeners, scRendered.hasAccess)
    /\ ~alMounted => scListeners = NoListeners

\* The listener was replaced by one that saw hasAccess = true, a key press
\* navigated, and the layout was unmounted afterwards.
C29_Witness ==
    /\ scNavs > 0
    /\ alMounts > 0
    /\ ~alMounted
    /\ scListeners = NoListeners

------------------------------------------------------------------------------
(* The role resolver with its scheduling: React renders the state updates
   that are pending, and every lookup that was issued is answered. *)

UpAnswer == \E r \in upReqs : UpFetchDone(r, "ok") \/ UpFetchDone(r, "error")

\* UserProfile is about to be opened.  Whether a lookup is answered does not
\* depend on the rows of user_roles: one identity with rows or without, the
\* other with the role "user".
InitResolverLive ==
    /\ InitResolver
    /\ user_roles \in {RowsOf(f) : f \in {g \in [Ids -> RoleSets] :
                                              /\ g["u1"] \in {{}, {"admin"}}
                                              /\ g["u2"] = {"user"}}}

SpecResolverLive ==
    /\ InitResolverLive
    /\ [][NextResolver]_vars
    /\ WF_vars(UpRender)
    /\ WF_vars(UpAnswer)

\* C26: when every lookup that was issued is answered, a mounted resolver
\* that reports loading = true reports loading = false later on (or is
\* unmounted), whatever identity changes happen in between: it does not stay
\* in the fetching state.
C26_ResolverLeavesLoading ==
    (upMounted /\ upRendered.ret.loading) ~> (~upMounted \/ ~upRendered.ret.loading)

\* The identity changed while the first lookup was pending, both lookups were
\* answered, and the resolver reports loading = false.
C26_Witness ==
    /\ upMounted
    /\ upIssued = 2
    /\ upApplied.n = 2
    /\ upReqs = {}
    /\ ~upRendered.ret.loading

------------------------------------------------------------------------------
(* Home and Browse on their own *)

\* The tables artworks can be: up to MaxFeed rows, the row at position k with
\* id k.
FeedTables ==
    UNION {[1..n -> [user_id : Ids, mature_content : NullableBoolean]] : n \in 0..MaxFeed}

\* The tables profiles can be: the user who may be signed in has no row or one
\* with any show_mature_content, the other user has no row or one.
ProfileTables ==
    {a \cup b : a \in {{}} \cup {{[id |-> "u1", username |-> "u1", show_mature_content |-> m]} :
                                     m \in NullableBoolean},
                b \in {{}, {[id |-> "u2", username |-> "u2", show_mature_content |-> "false"]}}}

\* Home or Browse has mounted and its effects have run: Home has called
\* fetchUserPreference and fetchFeedArtworks with showMatureContent = false,
\* Browse has called fetchArtworks, which has no filter.
InitFeed ==
    /\ autoBatching = TRUE
    /\ user_roles = {}
    /\ session \in {"u1", None}
    /\ GateIdle
    /\ ResolverIdle
    /\ FavoriteIdle
    /\ CommentIdle
    /\ ViewIdle
    /\ UploadIdle
    /\ FollowIdle
    /\ \E t \in FeedTables :
           artworks = [k \in DOMAIN t |-> [id |-> k, user_id |-> t[k].user_id,
                                          mature_content |-> t[k].mature_content]]
    /\ profiles \in ProfileTables
    /\ hmPage \in FeedPages
    /\ hmPage = "Browse" => session = None
    /\ hmArtworks = <<>>
    /\ hmLoading = TRUE
    /\ hmShowMatureContent = FALSE
    /\ hmPrefReq = IF hmPage = "Home" THEN "getUser" ELSE "done"
    /\ hmFeedReqs = {IF hmPage = "Home" THEN feedRequest(1, TRUE, FeedLimit)
                     ELSE feedRequest(1, FALSE, BrowseLimit)}
    /\ hmIssued = 1
    /\ hmFailed = FALSE

NextFeed ==
    \/ HmUserDone
    \/ HmPreferenceDone("ok")
    \/ HmPreferenceDone("error")
    \/ \E r \in hmFeedReqs : FeedQueryDone(r, "ok")
    \/ \E r \in hmFeedReqs : FeedQueryDone(r, "error")
    \/ \E r \in hmFeedReqs : \E k \in r.pending : FeedProfileDone(r, k, "ok")
    \/ \E r \in hmFeedReqs : \E k \in r.pending : FeedProfileDone(r, k, "error")

SpecFeed == InitFeed /\ [][NextFeed]_vars

------------------------------------------------------------------------------
(* Claims about the artwork lists of Home and Browse, under SpecFeed *)

\* the ids of a list of artworks, in order
idsOf(list) == [k \in 1..Len(list) |-> list[k].id]

\* the profile fetch of the user who is signed in returns
\* show_mature_content = true
PreferenceIsTrue ==
    /\ session # None
    /\ \E p \in profiles : p.id = session /\ p.show_mature_content = "true"

\* C22: when fetchUserPreference and every call of fetchFeedArtworks have
\* finished, and no query failed, Home displays the answer to the query for
\* the showMatureContent it holds, in whatever order the answers arrived.
C22_DisplayedFeedIsOfLatestPreference ==
    (hmPage = "Home" /\ hmPrefReq = "done" /\ hmFeedReqs = {} /\ ~hmFailed) =>
        idsOf(hmArtworks) = idsOf(feedQuery(artworks, ~hmShowMatureContent, FeedLimit))

\* C23: whatever the order in which the profile fetches are answered, the
\* value kept for an artwork is the profile of that artwork's user_id or
\* nothing, a displayed artwork carries the profile of its own user_id or the
\* placeholder "Unknown" (always the placeholder when that user has no
\* profile), and the displayed artworks, when there are any, are an answer of
\* the query in its order.
C23_OwnProfileInQueryOrder ==
    /\ \A r \in hmFeedReqs : \A k \in 1..Len(r.data) :
           r.results[k] \in {selectProfile(r.data[k].user_id), {}}
    /\ \A k \in 1..Len(hmArtworks) :
           hmArtworks[k].profiles \in {profileOrUnknown(selectProfile(hmArtworks[k].user_id)),
                                       profileOrUnknown({})}
    /\ \/ hmArtworks = <<>>
       \/ \E filter \in BOOLEAN :
           idsOf(hmArtworks) =
               idsOf(feedQuery(artworks, filter,
                               IF hmPage = "Home" THEN FeedLimit ELSE BrowseLimit))

\* Two artworks of different users who both have a profile: the fetch for the
\* second artwork was answered first, with its own user's profile.
C23_Witness ==
    \E r \in hmFeedReqs :
        /\ Len(r.data) = 2
        /\ r.pending = {1}
        /\ r.data[1].user_id # r.data[2].user_id
        /\ selectProfile(r.data[1].user_id) # {}
        /\ r.results[2] = selectProfile(r.data[2].user_id)
        /\ r.results[2] # {}

\* C27: on Home, unless the profile fetch of the user who is signed in has
\* returned show_mature_content = true, every artwork query carries the
\* filter on mature_content, no answer and no displayed list holds an artwork
\* with mature_content = true, and showMatureContent is false.
C27_MatureOnlyAfterPreferenceTrue ==
    (hmPage = "Home" /\ ~(PreferenceIsTrue /\ hmPrefReq = "done")) =>
        /\ ~hmShowMatureContent
        /\ \A r \in hmFeedReqs :
               /\ r.filter
               /\ \A k \in 1..Len(r.data) : r.data[k].mature_content # "true"
        /\ \A k \in 1..Len(hmArtworks) : hmArtworks[k].mature_content # "true"

\* A user whose profile says show_mature_content = false got the feed, which
\* leaves out the mature artwork of the table.
C27_Witness ==
    /\ hmPage = "Home"
    /\ session # None
    /\ \E p \in profiles : p.id = session /\ p.show_mature_content = "false"
    /\ hmPrefReq = "done"
    /\ hmFeedReqs = {}
    /\ ~hmFailed
    /\ Len(artworks) = 2
    /\ artworks[1].mature_content = "true"
    /\ idsOf(hmArtworks) = <<2>>

====
